---- MODULE Spec2Model ----
(***************************************************************************)
(* Model of the spotix playback engine.                                    *)
(*                                                                         *)
(* Part 1: the Player state machine of spotix-core/src/player/mod.rs.      *)
(* The Player owns `state`, `preload`, `queue`, the consecutive-failure    *)
(* counter and the end-of-track suppression flag, and handles one          *)
(* PlayerEvent at a time on its own loop.  Background load/preload threads *)
(* post exactly one Loaded/Preloaded event each.  Times are whole seconds. *)
(*                                                                         *)
(* Part 2: the crossfade mixer of spotix-core/src/audio/source.rs, pulled  *)
(* by the audio output through AudioSource::write.  Samples are exact      *)
(* fractions, so gains are computed without rounding.                      *)
(*                                                                         *)
(* Part 3: the other pipeline stages of audio/source.rs and                *)
(* audio/equalizer.rs (channel mappers, resampled source, equalizer), each *)
(* pulled through AudioSource::write on its own.                           *)
(*                                                                         *)
(* Part 4: the disk cache of spotix-core/src/cache.rs over a file tree.    *)
(*                                                                         *)
(* Part 5: the playback snapshot file of                                   *)
(* spotix-gui/src/controller/playback.rs, written by the GUI thread and    *)
(* read by a background thread at startup.                                 *)
(***************************************************************************)
EXTENDS Integers, Sequences, FiniteSets, TLC

VARIABLES
    player,     \* struct Player: state, preload, queue, config, counters
    threads,    \* background threads spawned and not yet reported back; `left`
                \* records that the Player has since stopped wanting their item
    worker,     \* TRUE once the playback manager's worker was handed a track
    effects,    \* what the handler that ran last sent, called and logged
    last,       \* the PlayerEvent handled last
    oracle,     \* which loads fail: free choice, or fixed per item
    skips,      \* number of "skipping" transitions taken in a scripted run
    requested,  \* history: the item of the last call of load_and_play, if any
    mixer,      \* struct CrossfadeSource, with the commands queued for it
    written,    \* the last write of the mixer: what it found and produced
    stage,      \* a pipeline stage on its own, with its upstream source
    staged,     \* the last write of the stage: what it found and produced
    cache,      \* the file tree under Cache::base
    io,         \* the last cache call and its result; Cache::clear in progress
    snapshot    \* the playback snapshot file, its loader thread and its writer

vars ==
    <<player, threads, worker, effects, last, oracle, skips, requested, mixer, written,
      stage, staged, cache, io, snapshot>>

----------------------------------------------------------------------------
(* Bounds and input domains *)

\* Most background threads alive at once.
MaxThreads == 2

\* Most background threads alive at once in a burst of load requests.
MaxLoads == 3

Items == {1, 2}

\* Queues handed to LoadQueue, at any cursor: an item queued twice in a row,
\* followed by another item.
Queues == {<<1, 1, 2>>}

\* Reported playback positions, in seconds, around every threshold used:
\* with 33 s tracks, 2 and 3 straddle both the 3 s Previous threshold and the
\* 30 s preload window, 1 and 2 straddle the crossfade duration, 40 is past
\* the end.
Positions == {1, 2, 3, 40}

\* Crossfade off, or a crossfade longer than the preload window.
CrossfadeDurations == {0, 31}

----------------------------------------------------------------------------
(* Program constants *)

PREVIOUS_TRACK_THRESHOLD == 3

STOP_AFTER_CONSECUTIVE_LOADING_FAILURES == 3

PRELOAD_BEFORE_END_OF_TRACK == 30

----------------------------------------------------------------------------
(* Values *)

\* MediaPath of the file an item resolves to: {item_id, file_id, duration}.
DurationOf(item) == 33

MediaPath(item) == [item_id |-> item, file_id |-> item, duration |-> DurationOf(item)]

\* LoadedPlaybackItem: the decodable file, known here by its path.
LoadedPlaybackItem(item) == [path |-> MediaPath(item)]

\* Duration::checked_sub(..).unwrap_or_default()
checked_sub_or_default(a, b) == IF a >= b THEN a - b ELSE 0

\* enum PlayerState
Loading(item, handle) == [tag |-> "Loading", item |-> item, loading_handle |-> handle]
Playing(path, position) == [tag |-> "Playing", path |-> path, position |-> position]
Paused(path, position) == [tag |-> "Paused", path |-> path, position |-> position]
Stopped == [tag |-> "Stopped"]
Invalid == [tag |-> "Invalid"]

\* enum PreloadState
PreloadNone == [tag |-> "None"]
Preloading(item, handle) == [tag |-> "Preloading", item |-> item, loading_handle |-> handle]
Preloaded(item, loaded_item) == [tag |-> "Preloaded", item |-> item, loaded_item |-> loaded_item]

\* Effects of a handler, in program order.
Sent(ev) == [kind |-> "send", event |-> ev]
Call(target, what) == [kind |-> "call", target |-> target, what |-> what]
Logged(msg) == [kind |-> "log", msg |-> msg]
Spawn(item, posts) == [kind |-> "spawn", item |-> item, posts |-> posts]

Emit(s, e) == [s EXCEPT !.effects = Append(@, e)]

----------------------------------------------------------------------------
(* Queue: sequential cursor over an ordered list of items *)

QueueNew == [items |-> <<>>, position |-> 0]

queue_fill(q, items, position) == [items |-> items, position |-> position]

queue_clear(q) == [items |-> <<>>, position |-> 0]

queue_get_current(q) ==
    IF q.position < Len(q.items) THEN <<q.items[q.position + 1]>> ELSE <<>>

queue_get_following(q) ==
    IF q.position + 1 < Len(q.items) THEN <<q.items[q.position + 2]>> ELSE <<>>

queue_skip_to_next(q) == [q EXCEPT !.position = @ + 1]

queue_skip_to_following(q) == [q EXCEPT !.position = @ + 1]

queue_skip_to_previous(q) == [q EXCEPT !.position = IF @ > 0 THEN @ - 1 ELSE 0]

----------------------------------------------------------------------------
(* Player methods.  `s` is the Player together with the set of running     *)
(* threads, the JoinHandle of the thread spawned last by the current       *)
(* handler, the effects of the current handler, and the item load_and_play *)
(* was called with last (history).                                         *)

stop(s) ==
    LET a == Emit(s, Sent([type |-> "Stopped"]))
        b == Emit(a, Call("sink", "stop"))
    IN  [b EXCEPT !.state = Stopped,
                  !.queue = queue_clear(@),
                  !.consecutive_loading_failures = 0]

play_loaded(s, loaded_item) ==
    LET path == loaded_item.path
        a == Emit(s, Logged("starting playback"))
        b == Emit(a, Call("playback_mgr", [op |-> "play", path |-> path]))
        c == [b EXCEPT !.state = Playing(path, 0)]
    IN  Emit(c, Sent([type |-> "Playing", path |-> path, position |-> 0]))

\* thread::spawn: a thread that will post one `posts` event for `item`.  Its
\* JoinHandle is a number naming no live thread and held by no state.
HandlesInUse(s) ==
    {t.handle : t \in s.threads}
        \cup (IF s.state.tag = "Loading" THEN {s.state.loading_handle} ELSE {})
        \cup (IF s.preload.tag = "Preloading" THEN {s.preload.loading_handle} ELSE {})

FreshHandle(s) ==
    CHOOSE h \in 1..(Cardinality(HandlesInUse(s)) + 1) :
        /\ h \notin HandlesInUse(s)
        /\ \A g \in 1..(h - 1) : g \in HandlesInUse(s)

spawn_thread(s, item, posts) ==
    LET handle == FreshHandle(s)
        a == [s EXCEPT !.handle = handle,
                       !.threads = @ \cup {[handle |-> handle, item |-> item, posts |-> posts,
                                            left |-> FALSE]}]
    IN  Emit(a, Spawn(item, posts))

\* load_and_play that never promotes a Preloaded item: it is loaded again.
load_and_play_no_promotion(s, item) ==
    LET a == Emit([s EXCEPT !.requested = <<item>>], Call("sink", "stop"))
        taken == a.preload
        b == [a EXCEPT !.preload = PreloadNone]
        enter(t, handle) ==
            LET u == Emit(t, Sent([type |-> "Loading", item |-> item]))
            IN  [u EXCEPT !.state = Loading(item, handle)]
    IN  IF taken.tag = "Preloading" /\ taken.item = item
        THEN enter(b, taken.loading_handle)
        ELSE LET c == spawn_thread(a, item, "Loaded")
             IN  enter(c, c.handle)

load_and_play(s, item) ==
    LET a == Emit([s EXCEPT !.requested = <<item>>], Call("sink", "stop"))
        taken == a.preload
        b == [a EXCEPT !.preload = PreloadNone]
        enter(t, handle) ==
            LET u == Emit(t, Sent([type |-> "Loading", item |-> item]))
            IN  [u EXCEPT !.state = Loading(item, handle)]
    IN  IF taken.tag = "Preloaded" /\ taken.item = item
        THEN play_loaded(b, taken.loaded_item)
        ELSE IF taken.tag = "Preloading" /\ taken.item = item
        THEN enter(b, taken.loading_handle)
        ELSE LET c == spawn_thread(a, item, "Loaded")
             IN  enter(c, c.handle)

is_in_preload(s, item) ==
    s.preload.tag \in {"Preloading", "Preloaded"} /\ s.preload.item = item

preload(s, item) ==
    IF is_in_preload(s, item)
    THEN s
    ELSE LET a == spawn_thread(s, item, "Preloaded")
         IN  [a EXCEPT !.preload = Preloading(item, a.handle)]

seek(s, position) ==
    Emit(s, Call("playback_mgr", [op |-> "seek", position |-> position]))

\* next that leaves the player as it is when the queue is exhausted.
next_without_stop(s) ==
    LET a == [s EXCEPT !.queue = queue_skip_to_next(@)]
        cur == queue_get_current(a.queue)
    IN  IF cur # <<>> THEN load_and_play(a, cur[1]) ELSE a

next(s) ==
    LET a == [s EXCEPT !.queue = queue_skip_to_next(@)]
        cur == queue_get_current(a.queue)
    IN  IF cur # <<>> THEN load_and_play(a, cur[1]) ELSE stop(a)

\* is_near_playback_start that counts the threshold itself as near the start.
is_near_playback_start_inclusive(s) ==
    IF s.state.tag \in {"Playing", "Paused"}
    THEN s.state.position <= PREVIOUS_TRACK_THRESHOLD
    ELSE FALSE

is_near_playback_start(s) ==
    IF s.state.tag \in {"Playing", "Paused"}
    THEN s.state.position < PREVIOUS_TRACK_THRESHOLD
    ELSE FALSE

previous(s) ==
    IF is_near_playback_start(s)
    THEN LET a == [s EXCEPT !.queue = queue_skip_to_previous(@)]
             cur == queue_get_current(a.queue)
         IN  IF cur # <<>> THEN load_and_play(a, cur[1]) ELSE stop(a)
    ELSE seek(s, 0)

\* handle_loaded accepting any result while Loading, whatever its item.
handle_loaded_any_item(s, item, ok) ==
    IF s.state.tag = "Loading"
    THEN IF ok
         THEN play_loaded([s EXCEPT !.consecutive_loading_failures = 0],
                          LoadedPlaybackItem(item))
         ELSE LET a == [s EXCEPT !.consecutive_loading_failures = @ + 1]
              IN  IF a.consecutive_loading_failures < STOP_AFTER_CONSECUTIVE_LOADING_FAILURES
                  THEN next(Emit(a, Logged("skipping, error while loading")))
                  ELSE stop(Emit(a, Logged("stopping, error while loading")))
    ELSE Emit(s, Logged("stale load result received, ignoring"))

\* handle_loaded stopping only once the counter exceeds the threshold.
handle_loaded_late_stop(s, item, ok) ==
    IF s.state.tag = "Loading" /\ item = s.state.item
    THEN IF ok
         THEN play_loaded([s EXCEPT !.consecutive_loading_failures = 0],
                          LoadedPlaybackItem(item))
         ELSE LET a == [s EXCEPT !.consecutive_loading_failures = @ + 1]
              IN  IF a.consecutive_loading_failures <= STOP_AFTER_CONSECUTIVE_LOADING_FAILURES
                  THEN next(Emit(a, Logged("skipping, error while loading")))
                  ELSE stop(Emit(a, Logged("stopping, error while loading")))
    ELSE Emit(s, Logged("stale load result received, ignoring"))

handle_loaded(s, item, ok) ==
    IF s.state.tag = "Loading" /\ item = s.state.item
    THEN IF ok
         THEN play_loaded([s EXCEPT !.consecutive_loading_failures = 0],
                          LoadedPlaybackItem(item))
         ELSE LET a == [s EXCEPT !.consecutive_loading_failures = @ + 1]
              IN  IF a.consecutive_loading_failures < STOP_AFTER_CONSECUTIVE_LOADING_FAILURES
                  THEN next(Emit(a, Logged("skipping, error while loading")))
                  ELSE stop(Emit(a, Logged("stopping, error while loading")))
    ELSE Emit(s, Logged("stale load result received, ignoring"))

\* handle_preloaded counting a failed preload as a failed load.
handle_preloaded_counting_failure(s, item, ok) ==
    IF s.preload.tag = "Preloading" /\ item = s.preload.item
    THEN IF ok
         THEN LET a == Emit(s, Logged("preloaded audio file"))
              IN  [a EXCEPT !.preload = Preloaded(item, LoadedPlaybackItem(item))]
         ELSE LET a == Emit(s, Logged("failed to preload audio file"))
              IN  [a EXCEPT !.preload = PreloadNone,
                            !.consecutive_loading_failures = @ + 1]
    ELSE handle_loaded(Emit(s, Logged("stale preload result received, ignoring")), item, ok)

\* handle_preloaded that drops a result its preload slot does not wait for.
handle_preloaded_dropping_stale(s, item, ok) ==
    IF s.preload.tag = "Preloading" /\ item = s.preload.item
    THEN IF ok
         THEN LET a == Emit(s, Logged("preloaded audio file"))
              IN  [a EXCEPT !.preload = Preloaded(item, LoadedPlaybackItem(item))]
         ELSE LET a == Emit(s, Logged("failed to preload audio file"))
              IN  [a EXCEPT !.preload = PreloadNone]
    ELSE Emit(s, Logged("stale preload result received, ignoring"))

handle_preloaded(s, item, ok) ==
    IF s.preload.tag = "Preloading" /\ item = s.preload.item
    THEN IF ok
         THEN LET a == Emit(s, Logged("preloaded audio file"))
              IN  [a EXCEPT !.preload = Preloaded(item, LoadedPlaybackItem(item))]
         ELSE LET a == Emit(s, Logged("failed to preload audio file"))
              IN  [a EXCEPT !.preload = PreloadNone]
    ELSE handle_loaded(Emit(s, Logged("stale preload result received, ignoring")), item, ok)

\* maybe_start_crossfade that leaves the queue cursor where it is.
maybe_start_crossfade_no_advance(s, position, path, started) ==
    LET following == queue_get_following(s.queue)
        next_item == following[1]
        taken == s.preload
    IN  IF s.config.crossfade_duration = 0
        THEN s
        ELSE IF checked_sub_or_default(path.duration, position) > s.config.crossfade_duration
        THEN s
        ELSE IF following = <<>>
        THEN s
        ELSE IF ~(taken.tag = "Preloaded" /\ taken.item = next_item)
        THEN s
        ELSE LET next_path == taken.loaded_item.path
                 a == Emit([s EXCEPT !.preload = PreloadNone],
                           Call("playback_mgr", [op |-> "start_crossfade", path |-> next_path,
                                                 duration |-> s.config.crossfade_duration,
                                                 answer |-> started]))
             IN  IF ~started
                 THEN preload(a, next_item)
                 ELSE LET b == [a EXCEPT !.consecutive_loading_failures = 0,
                                         !.ignore_end_of_track = TRUE,
                                         !.state = Playing(next_path, 0)]
                      IN  Emit(b, Sent([type |-> "Playing", path |-> next_path, position |-> 0]))

\* maybe_start_crossfade that does not look at the time left in the track.
maybe_start_crossfade_any_time(s, position, path, started) ==
    LET following == queue_get_following(s.queue)
        next_item == following[1]
        taken == s.preload
    IN  IF s.config.crossfade_duration = 0
        THEN s
        ELSE IF following = <<>>
        THEN s
        ELSE IF ~(taken.tag = "Preloaded" /\ taken.item = next_item)
        THEN s
        ELSE LET next_path == taken.loaded_item.path
                 a == Emit([s EXCEPT !.preload = PreloadNone],
                           Call("playback_mgr", [op |-> "start_crossfade", path |-> next_path,
                                                 duration |-> s.config.crossfade_duration,
                                                 answer |-> started]))
             IN  IF ~started
                 THEN preload(a, next_item)
                 ELSE LET b == [a EXCEPT !.queue = queue_skip_to_following(@),
                                         !.consecutive_loading_failures = 0,
                                         !.ignore_end_of_track = TRUE,
                                         !.state = Playing(next_path, 0)]
                      IN  Emit(b, Sent([type |-> "Playing", path |-> next_path, position |-> 0]))

\* `started` is the answer of PlaybackManager::start_crossfade.
maybe_start_crossfade(s, position, path, started) ==
    LET following == queue_get_following(s.queue)
        next_item == following[1]
        taken == s.preload
    IN  IF s.config.crossfade_duration = 0
        THEN s
        ELSE IF checked_sub_or_default(path.duration, position) > s.config.crossfade_duration
        THEN s
        ELSE IF following = <<>>
        THEN s
        ELSE IF ~(taken.tag = "Preloaded" /\ taken.item = next_item)
        THEN s
        ELSE LET next_path == taken.loaded_item.path
                 a == Emit([s EXCEPT !.preload = PreloadNone],
                           Call("playback_mgr", [op |-> "start_crossfade", path |-> next_path,
                                                 duration |-> s.config.crossfade_duration,
                                                 answer |-> started]))
             IN  IF ~started
                 THEN preload(a, next_item)
                 ELSE LET b == [a EXCEPT !.queue = queue_skip_to_following(@),
                                         !.consecutive_loading_failures = 0,
                                         !.ignore_end_of_track = TRUE,
                                         !.state = Playing(next_path, 0)]
                      IN  Emit(b, Sent([type |-> "Playing", path |-> next_path, position |-> 0]))

\* handle_position that compares only the item of the reported path.
handle_position_item_only(s, new_position, reported_path, started) ==
    IF s.state.tag \in {"Playing", "Paused"}
    THEN IF s.state.path.item_id # reported_path.item_id
         THEN Emit(s, Logged("ignoring stale position report"))
         ELSE LET a == [s EXCEPT !.state.position = new_position]
                  current_path == s.state.path
                  time_until_end_of_track ==
                      checked_sub_or_default(current_path.duration, new_position)
                  following == queue_get_following(a.queue)
                  b == IF time_until_end_of_track <= PRELOAD_BEFORE_END_OF_TRACK
                          /\ following # <<>>
                       THEN preload(a, following[1])
                       ELSE a
              IN  IF b.state.tag = "Playing"
                  THEN maybe_start_crossfade(b, new_position, current_path, started)
                  ELSE b
    ELSE Emit(s, Logged("received unexpected position report"))

\* handle_position whose preload window excludes its boundary.
handle_position_short_window(s, new_position, reported_path, started) ==
    IF s.state.tag \in {"Playing", "Paused"}
    THEN IF s.state.path.item_id # reported_path.item_id
            \/ s.state.path.file_id # reported_path.file_id
         THEN Emit(s, Logged("ignoring stale position report"))
         ELSE LET a == [s EXCEPT !.state.position = new_position]
                  current_path == s.state.path
                  time_until_end_of_track ==
                      checked_sub_or_default(current_path.duration, new_position)
                  following == queue_get_following(a.queue)
                  b == IF time_until_end_of_track < PRELOAD_BEFORE_END_OF_TRACK
                          /\ following # <<>>
                       THEN preload(a, following[1])
                       ELSE a
              IN  IF b.state.tag = "Playing"
                  THEN maybe_start_crossfade(b, new_position, current_path, started)
                  ELSE b
    ELSE Emit(s, Logged("received unexpected position report"))

handle_position(s, new_position, reported_path, started) ==
    IF s.state.tag \in {"Playing", "Paused"}
    THEN IF s.state.path.item_id # reported_path.item_id
            \/ s.state.path.file_id # reported_path.file_id
         THEN Emit(s, Logged("ignoring stale position report"))
         ELSE LET a == [s EXCEPT !.state.position = new_position]
                  current_path == s.state.path
                  time_until_end_of_track ==
                      checked_sub_or_default(current_path.duration, new_position)
                  following == queue_get_following(a.queue)
                  b == IF time_until_end_of_track <= PRELOAD_BEFORE_END_OF_TRACK
                          /\ following # <<>>
                       THEN preload(a, following[1])
                       ELSE a
              IN  IF b.state.tag = "Playing"
                  THEN maybe_start_crossfade(b, new_position, current_path, started)
                  ELSE b
    ELSE Emit(s, Logged("received unexpected position report"))

\* handle_end_of_track that never looks at the suppression flag.
handle_end_of_track_no_suppression(s) ==
    LET a == [s EXCEPT !.queue = queue_skip_to_following(@)]
        cur == queue_get_current(a.queue)
    IN  IF cur # <<>> THEN load_and_play(a, cur[1]) ELSE stop(a)

handle_end_of_track(s) ==
    IF s.ignore_end_of_track
    THEN [s EXCEPT !.ignore_end_of_track = FALSE]
    ELSE LET a == [s EXCEPT !.queue = queue_skip_to_following(@)]
             cur == queue_get_current(a.queue)
         IN  IF cur # <<>> THEN load_and_play(a, cur[1]) ELSE stop(a)

load_queue(s, items, position) ==
    LET a == [s EXCEPT !.queue = queue_fill(@, items, position)]
        cur == queue_get_current(a.queue)
    IN  IF cur # <<>> THEN load_and_play(a, cur[1]) ELSE stop(a)

pause(s) ==
    LET old == s.state
        a == [s EXCEPT !.state = Invalid]
    IN  IF old.tag \in {"Playing", "Paused"}
        THEN LET b == Emit(a, Logged("pausing playback"))
                 c == Emit(b, Call("sink", "pause"))
                 d == Emit(c, Sent([type |-> "Pausing", path |-> old.path,
                                    position |-> old.position]))
             IN  [d EXCEPT !.state = Paused(old.path, old.position)]
        ELSE Emit(a, Logged("invalid state transition"))

resume(s) ==
    LET old == s.state
        a == [s EXCEPT !.state = Invalid]
    IN  IF old.tag \in {"Playing", "Paused"}
        THEN LET b == Emit(a, Logged("resuming playback"))
                 c == Emit(b, Call("sink", "resume"))
                 d == Emit(c, Sent([type |-> "Resuming", path |-> old.path,
                                    position |-> old.position]))
             IN  [d EXCEPT !.state = Playing(old.path, old.position)]
        ELSE Emit(a, Logged("invalid state transition"))

pause_or_resume(s) ==
    IF s.state.tag = "Playing" THEN pause(s)
    ELSE IF s.state.tag = "Paused" THEN resume(s)
    ELSE s

configure(s, config) == [s EXCEPT !.config = config]

set_volume(s, volume) == Emit(s, Call("sink", [op |-> "set_volume", volume |-> volume]))

----------------------------------------------------------------------------
(* Crossfade mixer: bounds and input domains *)

\* Longest fade requested, in frames.
MaxFadeFrames == 2

\* Largest output buffer handed to write, in samples.
MaxWriteLen == 4

\* Frames held by every source before it ends.
SourceFrames == 3

\* Most commands waiting on the control channel.
MaxPending == 1

\* Most commands sent before the write of a scripted run of the channel
\* (the channel holds up to 8).
MaxQueued == 3

ChannelCounts == {1, 2}

SourceIds == {1, 2}

----------------------------------------------------------------------------
(* Crossfade mixer: values *)

Min(a, b) == IF a <= b THEN a ELSE b

Max(a, b) == IF a >= b THEN a ELSE b

\* A sample value n/d.
Frac(n, d) == [n |-> n, d |-> d]

\* A source of SourceFrames frames, read up to sample idx.  Upstream sources
\* write whole frames and never block.
Source(id, channels) ==
    [id |-> id, channels |-> channels, idx |-> 0, len |-> SourceFrames * channels]

\* struct Empty: produces no samples.
Empty == [id |-> 0, channels |-> 0, idx |-> 0, len |-> 0]

\* The k-th sample (from 0) of the source called id; never 0, and different
\* for every source and position.
SampleOf(id, k) == 10 * id + k + 1

\* AudioSource::write of an upstream source into a buffer of len samples.
source_write(src, len) ==
    LET whole == IF src.channels = 0 THEN 0 ELSE len - (len % src.channels)
        n == Min(whole, src.len - src.idx)
    IN  [source |-> [src EXCEPT !.idx = @ + n],
         samples |-> [i \in 1..n |-> SampleOf(src.id, src.idx + i - 1)],
         returned |-> n]

\* enum CrossfadeCommand
ReplaceSource(source) == [type |-> "ReplaceSource", source |-> source]
StartCrossfade(next_source, duration_frames) ==
    [type |-> "StartCrossfade", next |-> next_source, duration_frames |-> duration_frames]
Clear == [type |-> "Clear"]

\* struct FadeState
FadeState(total_frames, pos_frames) == [total_frames |-> total_frames, pos_frames |-> pos_frames]

\* CrossfadeSource::new.  `next` and `fade` are Options: <<>> or <<value>>.
\* buffer_a and buffer_b are scratch space, overwritten by every write.
CrossfadeSourceNew(initial) ==
    [receiver |-> <<>>,
     current |-> initial,
     next |-> <<>>,
     fade |-> <<>>,
     channels |-> initial.channels]

----------------------------------------------------------------------------
(* Crossfade mixer: methods *)

\* drain_commands without the branch for duration_frames == 0.
drain_command_fading_over_zero_frames(cs, msg) ==
    IF msg.type = "ReplaceSource"
    THEN [cs EXCEPT !.channels = msg.source.channels,
                    !.current = msg.source,
                    !.next = <<>>,
                    !.fade = <<>>]
    ELSE IF msg.type = "StartCrossfade"
    THEN [cs EXCEPT !.next = <<msg.next>>,
                    !.fade = <<FadeState(msg.duration_frames, 0)>>]
    ELSE [cs EXCEPT !.current = Empty,
                    !.next = <<>>,
                    !.fade = <<>>]

\* drain_commands letting a fade in progress finish at once when the next
\* fade is started: the source fading in becomes the current one.
drain_command_finishing_the_fade(cs, msg) ==
    IF msg.type = "ReplaceSource"
    THEN [cs EXCEPT !.channels = msg.source.channels,
                    !.current = msg.source,
                    !.next = <<>>,
                    !.fade = <<>>]
    ELSE IF msg.type = "StartCrossfade"
    THEN IF msg.duration_frames = 0
         THEN [cs EXCEPT !.channels = msg.next.channels,
                         !.current = msg.next,
                         !.next = <<>>,
                         !.fade = <<>>]
         ELSE [cs EXCEPT !.channels = IF cs.next # <<>> THEN cs.next[1].channels ELSE @,
                         !.current = IF cs.next # <<>> THEN cs.next[1] ELSE @,
                         !.next = <<msg.next>>,
                         !.fade = <<FadeState(msg.duration_frames, 0)>>]
    ELSE [cs EXCEPT !.current = Empty,
                    !.next = <<>>,
                    !.fade = <<>>]

\* One iteration of the loop of drain_commands.
drain_command(cs, msg) ==
    IF msg.type = "ReplaceSource"
    THEN [cs EXCEPT !.channels = msg.source.channels,
                    !.current = msg.source,
                    !.next = <<>>,
                    !.fade = <<>>]
    ELSE IF msg.type = "StartCrossfade"
    THEN IF msg.duration_frames = 0
         THEN [cs EXCEPT !.channels = msg.next.channels,
                         !.current = msg.next,
                         !.next = <<>>,
                         !.fade = <<>>]
         ELSE [cs EXCEPT !.next = <<msg.next>>,
                         !.fade = <<FadeState(msg.duration_frames, 0)>>]
    ELSE [cs EXCEPT !.current = Empty,
                    !.next = <<>>,
                    !.fade = <<>>]

RECURSIVE drain_commands_newest_first(_)
\* drain_commands taking the commands from the back of the channel.
drain_commands_newest_first(cs) ==
    IF cs.receiver = <<>>
    THEN cs
    ELSE LET n == Len(cs.receiver)
         IN  drain_commands_newest_first(
                 drain_command([cs EXCEPT !.receiver = SubSeq(@, 1, n - 1)], cs.receiver[n]))

RECURSIVE drain_commands(_)
\* while let Ok(msg) = self.receiver.try_recv(): the commands waiting are
\* taken from the front, and an empty channel ends the loop at once.
drain_commands(cs) ==
    IF cs.receiver = <<>>
    THEN cs
    ELSE drain_commands(drain_command([cs EXCEPT !.receiver = Tail(@)], Head(cs.receiver)))

\* The gain t of the incoming source restarting from 0 with every write.
fade_t_per_write(fade, frame) ==
    LET total_frames == Max(fade.total_frames, 1)
    IN  Frac(Min(frame, total_frames), total_frames)

\* t = ((fade.pos_frames + frame) / total_frames).min(1.0)
fade_t(fade, frame) ==
    LET total_frames == Max(fade.total_frames, 1)
    IN  Frac(Min(fade.pos_frames + frame, total_frames), total_frames)

\* The fade goes on until a write goes past its last frame.
fade_is_over_past_the_end(fade, pos_frames) == pos_frames > fade.total_frames

\* fade.pos_frames >= fade.total_frames, once pos_frames was advanced
fade_is_over(fade, pos_frames) == pos_frames >= fade.total_frames

\* A buffer of max_len samples: what was written, then zeroes.
ZeroFilled(samples, max_len) ==
    [i \in 1..max_len |-> IF i <= Len(samples) THEN samples[i] ELSE 0]

\* What a call of write did: the mixer once the commands were drained, the
\* mixer on return, the output buffer as far as it was written, the result.
\* The state machine adds what the call found: the last of the commands
\* waiting on the channel, if any (received), whether a fade was active
\* (fading) and, in a scripted run of the channel, all the commands waiting,
\* in the order they were sent (pending).
WriteResult(drained, after, buffer, returned) ==
    [drained |-> drained, mixer |-> after, buffer |-> buffer, returned |-> returned]

\* <CrossfadeSource as AudioSource>::write, output.len() = len.
crossfade_write(cs0, len) ==
    LET cs == drain_commands(cs0)
    IN  IF cs.fade # <<>>
        THEN IF cs.channels = 0
             THEN WriteResult(cs, cs, <<>>, 0)
             ELSE IF len \div cs.channels = 0
             THEN WriteResult(cs, cs, <<>>, 0)
             ELSE LET frames == len \div cs.channels
                      max_len == frames * cs.channels
                      fade == cs.fade[1]
                      a == source_write(cs.current, max_len)
                      buffer_a == ZeroFilled(a.samples, max_len)
                      b == IF cs.next # <<>>
                           THEN source_write(cs.next[1], max_len)
                           ELSE [source |-> Empty, samples |-> <<>>, returned |-> 0]
                      buffer_b == ZeroFilled(b.samples, max_len)
                      output ==
                          [idx \in 1..len |->
                              IF idx <= max_len
                              THEN LET t == fade_t(fade, (idx - 1) \div cs.channels)
                                       from_gain == Frac(t.d - t.n, t.d)
                                       to_gain == t
                                   IN  Frac(buffer_a[idx] * from_gain.n
                                                + buffer_b[idx] * to_gain.n, t.d)
                              ELSE Frac(0, 1)]
                      pos_frames == fade.pos_frames + frames
                      pulled == [cs EXCEPT !.current = a.source,
                                           !.next = IF @ # <<>> THEN <<b.source>> ELSE <<>>]
                      after ==
                          IF fade_is_over(fade, pos_frames)
                          THEN IF pulled.next # <<>>
                               THEN [pulled EXCEPT !.channels = pulled.next[1].channels,
                                                   !.current = pulled.next[1],
                                                   !.next = <<>>,
                                                   !.fade = <<>>]
                               ELSE [pulled EXCEPT !.fade = <<>>]
                          ELSE [pulled EXCEPT !.fade = <<FadeState(fade.total_frames, pos_frames)>>]
                  IN  WriteResult(cs, after, output, max_len)
        ELSE LET r == source_write(cs.current, len)
             IN  WriteResult(cs, [cs EXCEPT !.current = r.source],
                             [i \in 1..r.returned |-> Frac(r.samples[i], 1)], r.returned)

\* No write yet.
NoWrite ==
    [len |-> 0, received |-> <<>>, fading |-> FALSE, pending |-> <<>>,
     drained |-> CrossfadeSourceNew(Empty), buffer |-> <<>>, returned |-> 0]

----------------------------------------------------------------------------
(* Pipeline stages: bounds and input domains *)

\* Most channels on either side of a channel mapper.
MaxChannels == 3

\* Longest output buffer handed to a stage, in samples.
MaxOutputLen == 6

\* Length of the input block of the resampled source (BUFFER_SIZE there).
InputBlock == 2

\* Most samples the resampled source is asked for in all.
MaxDelivered == 6

\* EQ_BAND_FREQS.len()
Bands == 10

\* What an output buffer holds in a sample that write has not set.
Stale == 0 - 1

\* What the caller's buffer holds before the call, in every sample.
BufferFills == {Stale, 0}

\* Equalizer gains, in thousandths of a dB: around the threshold of 0.01 dB.
GainValues == {0 - 11, 0 - 10, 0, 10, 11}

----------------------------------------------------------------------------
(* Pipeline stages: channel mappers *)

\* AudioSource::channel_count
channel_count(src) ==
    IF "kind" \in DOMAIN src THEN src.output_channels ELSE src.channels

\* StereoMappedSource::new.  write indexes i[1] and o[1], so both sides have
\* at least two channels.
StereoMappedSource(source, output_channels) ==
    [kind |-> "StereoMapped",
     source |-> source,
     input_channels |-> channel_count(source),
     output_channels |-> output_channels]

\* MonoMappedSource::new
MonoMappedSource(source, output_channels) ==
    [kind |-> "MonoMapped", source |-> source, output_channels |-> output_channels]

\* MonoSource::new
MonoSource(source) ==
    [kind |-> "Mono", source |-> source, input_channels |-> channel_count(source)]

\* What a call of write of a stage did: the stage on return, the caller's
\* buffer on return, the result, and what was asked of the upstream source
\* and what it returned (<<>> when it was not called).
StageResult(after, buffer, returned, upstream) ==
    [stage |-> after, buffer |-> buffer, returned |-> returned, upstream |-> upstream]

Upstream(asked, returned) == <<[asked |-> asked, returned |-> returned]>>

\* <StereoMappedSource as AudioSource>::write; `output` is the caller's buffer
\* as the call finds it.  The scratch buffer of 16 * 1024 samples caps what is
\* asked of the upstream source.
stereo_mapped_write(s, output) ==
    LET len == Len(output)
        input_max == (len \div s.output_channels) * s.input_channels
        buffer_max == Min(input_max, 16 * 1024)
        w == source_write(s.source, buffer_max)
        input_frames == w.returned \div s.input_channels
        output_frames == len \div s.output_channels
        zipped == Min(input_frames, output_frames)
    IN  StageResult([s EXCEPT !.source = w.source],
                [idx \in 1..len |->
                    LET frame == (idx - 1) \div s.output_channels
                        ch == (idx - 1) % s.output_channels
                    IN  IF frame < zipped /\ ch < 2
                        THEN w.samples[frame * s.input_channels + ch + 1]
                        ELSE output[idx]],
                len,
                Upstream(buffer_max, w.returned))

\* <MonoMappedSource as AudioSource>::write
mono_mapped_write(s, output) ==
    LET len == Len(output)
        frames == len \div s.output_channels
    IN  IF frames = 0
        THEN StageResult(s, output, 0, <<>>)
        ELSE LET w == source_write(s.source, frames)
                 written_samples == w.returned * s.output_channels
             IN  StageResult([s EXCEPT !.source = w.source],
                         [idx \in 1..len |->
                             IF idx <= written_samples
                             THEN w.samples[(idx - 1) \div s.output_channels + 1]
                             ELSE 0],
                         written_samples,
                         Upstream(frames, w.returned))

\* self.source.write(buffer) of a MonoSource: its source is a decoder-like
\* source, which leaves the samples it does not write as they are, or a
\* MonoMappedSource.
inner_write(src, buffer) ==
    IF "kind" \in DOMAIN src
    THEN LET r == mono_mapped_write(src, buffer)
         IN  [source |-> r.stage, buffer |-> r.buffer, returned |-> r.returned]
    ELSE LET w == source_write(src, Len(buffer))
         IN  [source |-> w.source,
              buffer |-> [i \in 1..Len(buffer) |->
                             IF i <= w.returned THEN w.samples[i] ELSE buffer[i]],
              returned |-> w.returned]

RECURSIVE SumOf(_, _, _)
\* sum += self.buffer[base + ch] for ch in 0..count, base counted from 0
SumOf(buffer, base, count) ==
    IF count = 0 THEN 0 ELSE SumOf(buffer, base, count - 1) + buffer[base + count]

\* The average without the division.
mono_frame_sum(buffer, base, input_channels) ==
    Frac(SumOf(buffer, base, input_channels), 1)

\* *out_sample = sum / self.input_channels as f32
mono_frame(buffer, base, input_channels) ==
    Frac(SumOf(buffer, base, input_channels), input_channels)

\* <MonoSource as AudioSource>::write; the output samples are fractions, of
\* denominator 1 where the buffer is handed on to the source as it is.  The
\* scratch buffer starts as zeroes and only what the source wrote is read.
mono_write(s, output) ==
    LET len == Len(output)
    IN  IF s.input_channels = 0
        THEN StageResult(s, output, 0, <<>>)
        ELSE IF s.input_channels = 1
        THEN LET w == inner_write(s.source, [idx \in 1..len |-> output[idx].n])
             IN  StageResult([s EXCEPT !.source = w.source],
                         [idx \in 1..len |-> Frac(w.buffer[idx], 1)],
                         w.returned,
                         Upstream(len, w.returned))
        ELSE LET input_needed == len * s.input_channels
                 w == inner_write(s.source, [i \in 1..input_needed |-> 0])
                 written_frames == w.returned \div s.input_channels
             IN  StageResult([s EXCEPT !.source = w.source],
                         [idx \in 1..len |->
                             IF idx <= written_frames
                             THEN mono_frame(w.buffer, (idx - 1) * s.input_channels,
                                             s.input_channels)
                             ELSE Frac(0, 1)],
                         written_frames,
                         Upstream(input_needed, w.returned))

----------------------------------------------------------------------------
(* Pipeline stages: resampled source.  audio/resample.rs is not part of    *)
(* the sources at hand: the resampler here doubles the rate by linear      *)
(* interpolation, is stateful across calls (it keeps the last input        *)
(* sample) and consumes at most `chunk` input samples per call.            *)

\* struct Buf
Buf(buf, start, end) == [buf |-> buf, start |-> start, end |-> end]

\* Buf::get
buf_get(b) == SubSeq(b.buf, b.start + 1, b.end)

\* Buf::len
buf_len(b) == b.end - b.start

\* Every buffer counts as used up.
buf_is_empty_whatever_is_left(b) == TRUE

\* Buf::is_empty
buf_is_empty(b) == b.start >= b.end

\* ResamplingSpec::output_size
output_size(input_size) == 2 * input_size

\* AudioResampler::new
AudioResampler(chunk) == [prev |-> 0, chunk |-> chunk]

RECURSIVE Interpolated(_, _, _)
\* The conversion of the first n samples of input after the sample prev.
Interpolated(prev, input, n) ==
    IF n = 0
    THEN <<>>
    ELSE Interpolated(prev, input, n - 1)
            \o <<(IF n = 1 THEN prev ELSE input[n - 1]) + input[n], 2 * input[n]>>

\* AudioResampler::process(input, output): (inp_consumed, out_written), with
\* the samples written to the front of output.
process(resampler, input, output_len) ==
    LET inp_consumed == Min(Min(resampler.chunk, Len(input)), output_len \div 2)
    IN  [resampler |-> [resampler EXCEPT
                            !.prev = IF inp_consumed = 0 THEN @ ELSE input[inp_consumed]],
         inp_consumed |-> inp_consumed,
         out |-> Interpolated(resampler.prev, input, inp_consumed),
         out_written |-> 2 * inp_consumed]

\* ResampledSource::new; `converted` is history: every sample the resampler
\* has put out so far.
ResampledSource(source, chunk) ==
    [kind |-> "Resampled",
     source |-> source,
     resampler |-> AudioResampler(chunk),
     inp |-> Buf([i \in 1..InputBlock |-> 0], 0, 0),
     out |-> Buf([i \in 1..output_size(InputBlock) |-> 0], 0, 0),
     converted |-> <<>>]

\* The body of `if self.inp.is_empty()`.
pull_block(rs) ==
    LET w == source_write(rs.source, Len(rs.inp.buf))
    IN  [rs EXCEPT !.source = w.source,
                   !.inp = Buf(ZeroFilled(w.samples, Len(rs.inp.buf)), 0, Len(rs.inp.buf))]

\* The call of the resampler on the rest of the input block.
convert_block(rs) ==
    LET p == process(rs.resampler, SubSeq(rs.inp.buf, rs.inp.start + 1, Len(rs.inp.buf)),
                     Len(rs.out.buf))
    IN  [rs EXCEPT !.resampler = p.resampler,
                   !.inp.start = @ + p.inp_consumed,
                   !.out = Buf([i \in 1..Len(rs.out.buf) |->
                                   IF i <= p.out_written THEN p.out[i] ELSE rs.out.buf[i]],
                               0, p.out_written),
                   !.converted = @ \o p.out]

\* The result of a call that does not return.
NoReturn == 0 - 1

\* `if self.out.is_empty()` converting only once the input block is used up.
refill_from_whole_blocks_only(rs) ==
    IF buf_is_empty(rs.out) /\ buf_is_empty(rs.inp)
    THEN convert_block(pull_block(rs))
    ELSE rs

\* The body of `if self.out.is_empty()`.
refill(rs) ==
    IF buf_is_empty(rs.out)
    THEN convert_block(IF buf_is_empty(rs.inp) THEN pull_block(rs) ELSE rs)
    ELSE rs

RECURSIVE resampled_loop(_, _, _)
\* The loop `while total < output.len()` from the given state on; rs is the
\* source with self.out refilled if it was empty.  An iteration that copies
\* nothing and leaves the source as it found it is repeated for ever: the
\* call does not return.
resampled_loop(rs, output, total) ==
    LET to_write == Min(buf_len(rs.out), Len(output) - total)
        next_total == total + to_write
        copied == [idx \in 1..Len(output) |->
                      IF total < idx /\ idx <= next_total
                      THEN rs.out.buf[rs.out.start + idx - total]
                      ELSE output[idx]]
        served == [rs EXCEPT !.out.start = @ + to_write]
    IN  IF next_total >= Len(output)
        THEN StageResult(served, copied, next_total, <<>>)
        ELSE IF to_write = 0 /\ refill(served) = served
        THEN StageResult(served, copied, NoReturn, <<>>)
        ELSE resampled_loop(refill(served), copied, next_total)

\* <ResampledSource as AudioSource>::write
resampled_write(rs, output) ==
    IF Len(output) = 0
    THEN StageResult(rs, output, 0, <<>>)
    ELSE resampled_loop(refill(rs), output, 0)

----------------------------------------------------------------------------
(* Pipeline stages: equalizer.  A sample is [value, filters]: filters is    *)
(* <<>> for a sample no filter has touched, and the gains of the cascade    *)
(* of peaking filters it went through otherwise.  The filters' arithmetic   *)
(* (sin, cos, powf) and their delay lines are not computed.                 *)

\* A sample as the upstream source wrote it.
Raw(value) == [value |-> value, filters |-> <<>>]

\* struct EqConfig; gains in thousandths of a dB.
EqConfig(enabled, gains_db) == [enabled |-> enabled, gains_db |-> gains_db]

\* f32::abs
gain_abs(gain) == IF gain < 0 THEN 0 - gain ELSE gain

\* Active whenever enabled, whatever the gains.
is_active_whenever_enabled(config) == config.enabled

\* EqConfig::is_active: gain.abs() > 0.01
is_active(config) ==
    config.enabled /\ \E band \in DOMAIN config.gains_db : gain_abs(config.gains_db[band]) > 10

\* Equalizer::new: one cascade of Bands peaking filters per channel.
Equalizer(channels, gains_db) == [channels |-> channels, gains_db |-> gains_db]

\* EqualizerSource::new; `config` is history: the configuration it was built
\* from.
EqualizerSource(source, config) ==
    [kind |-> "Equalizer",
     source |-> source,
     eq |-> IF is_active(config)
            THEN <<Equalizer(channel_count(source), config.gains_db)>>
            ELSE <<>>,
     config |-> config]

\* Equalizer::process on one sample
equalizer_process(eq, sample) ==
    IF eq.channels = 0 THEN sample ELSE [sample EXCEPT !.filters = eq.gains_db]

\* <EqualizerSource as AudioSource>::write
equalizer_write(s, output) ==
    LET w == source_write(s.source, Len(output))
    IN  StageResult([s EXCEPT !.source = w.source],
                [idx \in 1..Len(output) |->
                    IF idx <= w.returned
                    THEN IF s.eq # <<>>
                         THEN equalizer_process(s.eq[1], Raw(w.samples[idx]))
                         ELSE Raw(w.samples[idx])
                    ELSE output[idx]],
                w.returned,
                Upstream(Len(output), w.returned))

\* No stage under test.
NoStage == [kind |-> "None"]

\* No write yet.
NoOutput ==
    [before |-> NoStage, held |-> <<>>, buffer |-> <<>>, returned |-> 0,
     upstream |-> <<>>, delivered |-> <<>>]

----------------------------------------------------------------------------
(* Cache: bounds and input domains *)

\* Most files in the audio partition; their modification times are
\* 1..MaxAudioFiles.
MaxAudioFiles == 3

\* Sizes of audio files, in bytes.
Sizes == {1, 2}

\* Budgets passed to enforce_audio_limit, in bytes.
Limits == 0..4

\* What an entry outside the audio files holds: well-formed data, data that
\* does not parse, or nothing that can be read.
Healths == {"ok", "corrupt", "unreadable"}

----------------------------------------------------------------------------
(* Cache: the file tree.  An entry lies in a directory under base ("" is    *)
(* base itself) and is a file or a directory.                               *)

\* The directories create_cache_dirs makes under base.
Partitions == {"track", "episode", "audio", "key"}

File(dir, name, size, modified, data) ==
    [dir |-> dir, name |-> name, is_file |-> TRUE, size |-> size, modified |-> modified,
     data |-> data]

SubDir(dir, name) ==
    [dir |-> dir, name |-> name, is_file |-> FALSE, size |-> 0, modified |-> 0,
     data |-> "unreadable"]

\* The tree after Cache::new on an empty base: dirs are the directories
\* under base, files the entries of base and of its directories.
Skeleton == [dirs |-> Partitions, files |-> {}]

\* Option
None == <<>>
Some(x) == <<x>>

\* create_cache_dirs
create_cache_dirs(tree) == [tree EXCEPT !.dirs = @ \cup Partitions]

\* fs::read(path).ok() and fs::read_to_string(path).ok()
fs_read(tree, dir, name) ==
    LET found == {e \in tree.files : e.dir = dir /\ e.name = name}
    IN  IF dir # "" /\ dir \notin tree.dirs THEN None
        ELSE IF found = {} THEN None
        ELSE LET e == CHOOSE e \in found : TRUE
             IN  IF e.is_file /\ e.data # "unreadable" THEN Some(e) ELSE None

\* A read that fails where the data does not parse.
parse_or_fail(buf, what) ==
    IF buf = None THEN None
    ELSE IF buf[1].data = "ok" THEN Some([what |-> what, of |-> buf[1].name])
    ELSE Some([what |-> "Err", of |-> buf[1].name])

\* Track::parse_from_bytes(&buf).ok(), Episode::parse_from_bytes(&buf).ok(),
\* AudioKey::from_raw(&buf), and the UTF-8 check of read_to_string
parse(buf, what) ==
    IF buf = None THEN None
    ELSE IF buf[1].data = "ok" THEN Some([what |-> what, of |-> buf[1].name])
    ELSE None

\* Cache::get_track
get_track(tree, item_id) == parse(fs_read(tree, "track", item_id), "Track")

\* Cache::get_episode
get_episode(tree, item_id) == parse(fs_read(tree, "episode", item_id), "Episode")

\* Cache::get_audio_key; the key of item_id is stored for the file of the same
\* number.
get_audio_key(tree, item_id, file_id) ==
    parse(fs_read(tree, "key", item_id), "AudioKey")

\* Cache::get_country_code
get_country_code(tree) == parse(fs_read(tree, "", 0), "String")

\* The entries kept in the order of the listing.
sort_by_key_as_listed(entries) == entries

RECURSIVE sort_by_key(_)
\* entries.sort_by_key(|(_, _, modified)| *modified): stable, oldest first.
sort_by_key(entries) ==
    IF entries = <<>>
    THEN <<>>
    ELSE LET n == Len(entries)
             x == entries[n]
             front == sort_by_key(SubSeq(entries, 1, n - 1))
             k == Cardinality({i \in 1..(n - 1) : front[i].modified <= x.modified})
         IN  SubSeq(front, 1, k) \o <<x>> \o SubSeq(front, k + 1, n - 1)

RECURSIVE SizeOf(_)
\* entries.iter().map(|(_, size, _)| *size).sum()
SizeOf(entries) ==
    IF entries = <<>> THEN 0 ELSE entries[1].size + SizeOf(Tail(entries))

RECURSIVE evict(_, _, _)
\* The loop over the sorted entries: the files removed, in order.
\* fs::remove_file removes the file; its result is not looked at.
evict(entries, total, limit_bytes) ==
    IF entries = <<>> \/ total <= limit_bytes
    THEN <<>>
    ELSE <<entries[1]>>
            \o evict(Tail(entries), checked_sub_or_default(total, entries[1].size), limit_bytes)

\* What a call on the cache did: the tree on return, the result, and the
\* files removed, in the order of their removal.
CacheResult(tree, result, removed) == [tree |-> tree, result |-> result, removed |-> removed]

\* A budget of 0 is a budget like any other.
enforce_audio_limit_of_zero_bytes(tree, limit_bytes, listing) ==
    IF "audio" \notin tree.dirs
    THEN CacheResult(tree, "Err", <<>>)
    ELSE LET entries == sort_by_key(SelectSeq(listing, LAMBDA e : e.is_file))
             removed == evict(entries, SizeOf(entries), limit_bytes)
         IN  CacheResult([tree EXCEPT !.files = @ \ {removed[i] : i \in DOMAIN removed}],
                         "Ok", removed)

\* Cache::enforce_audio_limit; listing is fs::read_dir(audio_dir), the entries
\* of the audio directory in the order the file system lists them.
enforce_audio_limit(tree, limit_bytes, listing) ==
    IF limit_bytes = 0
    THEN CacheResult(tree, "Ok", <<>>)
    ELSE IF "audio" \notin tree.dirs
    THEN CacheResult(tree, "Err", <<>>)
    ELSE LET entries == sort_by_key(SelectSeq(listing, LAMBDA e : e.is_file))
             removed == evict(entries, SizeOf(entries), limit_bytes)
         IN  CacheResult([tree EXCEPT !.files = @ \ {removed[i] : i \in DOMAIN removed}],
                         "Ok", removed)

\* fs::read_dir(&self.base) in Cache::clear: the entries of base, directories
\* and files.
base_entries(tree) == [dirs |-> tree.dirs, files |-> {e \in tree.files : e.dir = ""}]

\* fs::remove_dir_all(path) in Cache::clear
remove_dir_all(tree, dir) ==
    [dirs |-> tree.dirs \ {dir}, files |-> {e \in tree.files : e.dir # dir}]

\* fs::remove_file(path) in Cache::clear
remove_file(tree, entry) == [tree EXCEPT !.files = @ \ {entry}]

\* No cache call yet, and no Cache::clear in progress.  `before` and `after`
\* are the tree as the last call found and left it; `clear` holds, while
\* Cache::clear runs, the entries it has yet to remove and the tree it found.
NoCall ==
    [op |-> "None", arg |-> 0, result |-> None, before |-> Skeleton, after |-> Skeleton,
     removed |-> <<>>, clear |-> None]

----------------------------------------------------------------------------
(* Playback snapshot: the file at snapshot_path and, next to it, the file   *)
(* with the extension "tmp".  A file is missing, invalid (not a snapshot),  *)
(* partial (a snapshot written in part) or valid (the whole snapshot `id`). *)

\* Most calls of save_snapshot in a run.
MaxSaves == 2

\* The snapshots save_snapshot is called with.
SnapshotIds == {1, 2}

FileMissing == [kind |-> "missing", id |-> 0]

FileInvalid == [kind |-> "invalid", id |-> 0]

FilePartial(id) == [kind |-> "partial", id |-> id]

\* Snapshot 0 is the one a previous run has left.
FileValid(id) == [kind |-> "valid", id |-> id]

\* parse_snapshot(&contents, &path) after fs::read_to_string(&path)
parse_snapshot(file) == IF file.kind = "valid" THEN Some(file.id) ELSE None

\* The files, the loader thread (load: its position, read: what it parsed,
\* removed: what its remove_file took away), the call of save_snapshot in
\* progress (save: its position, saving: its snapshot, lock: the guard of
\* SNAPSHOT_WRITE_LOCK is held) and the number of calls so far.
NoSnapshot ==
    [path |-> FileMissing, tmp |-> FileMissing,
     load |-> "idle", read |-> None, removed |-> None,
     save |-> "idle", saving |-> 0, lock |-> FALSE, saves |-> 0]

----------------------------------------------------------------------------
(* State machine *)

\* Player::new
PlayerNew ==
    [state |-> Stopped,
     preload |-> PreloadNone,
     queue |-> QueueNew,
     config |-> [crossfade_duration |-> 0],
     consecutive_loading_failures |-> 0,
     ignore_end_of_track |-> FALSE]

\* The Player with its environment, as the methods above see it.
Self ==
    [state |-> player.state,
     preload |-> player.preload,
     queue |-> player.queue,
     config |-> player.config,
     consecutive_loading_failures |-> player.consecutive_loading_failures,
     ignore_end_of_track |-> player.ignore_end_of_track,
     requested |-> requested,
     threads |-> threads,
     handle |-> 0,
     effects |-> <<>>]

\* JoinHandles are opaque, so they are renamed after every handler: 1 is the
\* handle held by PlayerState::Loading, 2 the handle held by
\* PreloadState::Preloading, and the detached threads are numbered from 3 in
\* the order of what they post and for which item.
NameHandles(r) ==
    LET in_state == IF r.state.tag = "Loading" THEN r.state.loading_handle ELSE 0
        in_preload == IF r.preload.tag = "Preloading" THEN r.preload.loading_handle ELSE 0
        detached == {t \in r.threads : t.handle \notin {in_state, in_preload}}
        key(t) == (IF t.left THEN 10000 ELSE 0) + (IF t.posts = "Loaded" THEN 0 ELSE 1000)
                      + 100 * t.item + t.handle
        name(t) == IF t.handle = in_state THEN 1
                   ELSE IF t.handle = in_preload THEN 2
                   ELSE 3 + Cardinality({u \in detached : key(u) < key(t)})
    IN  [r EXCEPT !.threads = {[t EXCEPT !.handle = name(t)] : t \in r.threads},
                  !.state = IF @.tag = "Loading" THEN [@ EXCEPT !.loading_handle = 1] ELSE @,
                  !.preload = IF @.tag = "Preloading" THEN [@ EXCEPT !.loading_handle = 2] ELSE @]

\* The Player expects a result for the item of thread t: it is Loading that
\* item, or t is a preload thread and the Player is Preloading that item.
Wanted(r, t) ==
    \/ r.state.tag = "Loading" /\ r.state.item = t.item
    \/ t.posts = "Preloaded" /\ r.preload.tag = "Preloading" /\ r.preload.item = t.item

\* History: note the threads whose item the Player has moved away from.
MarkLeft(r) ==
    [r EXCEPT !.threads = {[t EXCEPT !.left = @ \/ ~Wanted(r, t)] : t \in r.threads}]

\* One iteration of the Player loop: Player::handle(event) ran to completion,
\* with at most `cap` background threads left running.
CompletedWithin(cap, event, s) ==
    /\ Cardinality(s.threads) <= cap
    /\ player' = [state |-> s.state,
                  preload |-> s.preload,
                  queue |-> s.queue,
                  config |-> s.config,
                  consecutive_loading_failures |-> s.consecutive_loading_failures,
                  ignore_end_of_track |-> s.ignore_end_of_track]
    /\ threads' = s.threads
    /\ worker' = (worker \/ \E i \in DOMAIN s.effects :
                                /\ s.effects[i].kind = "call"
                                /\ s.effects[i].target = "playback_mgr"
                                /\ s.effects[i].what.op \in {"play", "start_crossfade"})
    /\ effects' = s.effects
    /\ last' = event
    /\ requested' = s.requested
    /\ UNCHANGED <<mixer, written, stage, staged, cache, io, snapshot>>

Completed(event, s) == CompletedWithin(MaxThreads, event, s)

Handled(event, r) == Completed(event, NameHandles(MarkLeft(r)))

\* Paths a Position report can carry: each item's file, or another file of it.
ReportedPaths ==
    {MediaPath(i) : i \in Items} \cup {[MediaPath(1) EXCEPT !.file_id = 0]}

\* Which results a load may have: any, or failure exactly for the failing items.
ResultAllowed(item, ok) == oracle.free \/ (ok <=> item \notin oracle.failing)

Init ==
    /\ player = PlayerNew
    /\ threads = {}
    /\ worker = FALSE
    /\ effects = <<>>
    /\ last = [type |-> "New"]
    /\ oracle = [free |-> TRUE, failing |-> {}]
    /\ skips = 0
    /\ requested = <<>>
    /\ mixer = CrossfadeSourceNew(Empty)
    /\ written = NoWrite
    /\ stage = NoStage
    /\ staged = NoOutput
    /\ cache = Skeleton
    /\ io = NoCall
    /\ snapshot = NoSnapshot

(* Commands *)

LoadQueue(items, position) ==
    /\ Handled([type |-> "LoadQueue", items |-> items, position |-> position],
               load_queue(Self, items, position))
    /\ UNCHANGED <<oracle, skips>>

LoadAndPlay(item) ==
    /\ Handled([type |-> "LoadAndPlay", item |-> item], load_and_play(Self, item))
    /\ UNCHANGED <<oracle, skips>>

CmdLoadQueue == \E items \in Queues : \E position \in 0..Len(items) : LoadQueue(items, position)

CmdLoadAndPlay == \E item \in Items : LoadAndPlay(item)

CmdPreload ==
    \E item \in Items :
        /\ Handled([type |-> "Preload", item |-> item], preload(Self, item))
        /\ UNCHANGED <<oracle, skips>>

CmdPause == Handled([type |-> "Pause"], pause(Self)) /\ UNCHANGED <<oracle, skips>>

CmdResume == Handled([type |-> "Resume"], resume(Self)) /\ UNCHANGED <<oracle, skips>>

CmdPauseOrResume ==
    Handled([type |-> "PauseOrResume"], pause_or_resume(Self)) /\ UNCHANGED <<oracle, skips>>

CmdPrevious == Handled([type |-> "Previous"], previous(Self)) /\ UNCHANGED <<oracle, skips>>

CmdNext == Handled([type |-> "Next"], next(Self)) /\ UNCHANGED <<oracle, skips>>

CmdStop == Handled([type |-> "Stop"], stop(Self)) /\ UNCHANGED <<oracle, skips>>

CmdSeek ==
    \E position \in Positions :
        /\ Handled([type |-> "Seek", position |-> position], seek(Self, position))
        /\ UNCHANGED <<oracle, skips>>

CmdConfigure ==
    \E d \in CrossfadeDurations :
        /\ Handled([type |-> "Configure", config |-> [crossfade_duration |-> d]],
                   configure(Self, [crossfade_duration |-> d]))
        /\ UNCHANGED <<oracle, skips>>

(* Events posted by background threads: the thread ends, the Player handles *)
(* its Loaded or Preloaded event.                                           *)

ThreadLoaded(t, ok) ==
    /\ t \in threads
    /\ t.posts = "Loaded"
    /\ ResultAllowed(t.item, ok)
    /\ Handled([type |-> "Loaded", item |-> t.item, ok |-> ok, handle |-> t.handle],
               handle_loaded([Self EXCEPT !.threads = @ \ {t}], t.item, ok))
    /\ UNCHANGED <<oracle, skips>>

ThreadPreloaded(t, ok) ==
    /\ t \in threads
    /\ t.posts = "Preloaded"
    /\ ResultAllowed(t.item, ok)
    /\ Handled([type |-> "Preloaded", item |-> t.item, ok |-> ok, handle |-> t.handle],
               handle_preloaded([Self EXCEPT !.threads = @ \ {t}], t.item, ok))
    /\ UNCHANGED <<oracle, skips>>

EvLoaded == \E t \in threads : \E ok \in BOOLEAN : ThreadLoaded(t, ok)

EvPreloaded == \E t \in threads : \E ok \in BOOLEAN : ThreadPreloaded(t, ok)

(* Events posted by the playback manager's worker for a track it was handed *)

EvPosition ==
    \E path \in ReportedPaths : \E position \in Positions : \E started \in BOOLEAN :
        /\ worker
        /\ Handled([type |-> "Position", path |-> path, position |-> position],
                   handle_position(Self, position, path, started))
        /\ UNCHANGED <<oracle, skips>>

EvEndOfTrack ==
    /\ worker
    /\ Handled([type |-> "EndOfTrack"], handle_end_of_track(Self))
    /\ UNCHANGED <<oracle, skips>>

\* Commands and load results, tracks resting at position 0.
Next ==
    \/ CmdLoadQueue
    \/ CmdLoadAndPlay
    \/ CmdPreload
    \/ CmdPause
    \/ CmdResume
    \/ CmdPauseOrResume
    \/ CmdPrevious
    \/ CmdNext
    \/ CmdStop
    \/ EvLoaded
    \/ EvPreloaded

Spec == Init /\ [][Next]_vars

----------------------------------------------------------------------------
(* Navigation only: a queue is loaded into a stopped player, then Next and  *)
(* Previous are handled while loads are in flight and report in any order.  *)

NavLoadQueue == player.state.tag = "Stopped" /\ CmdLoadQueue

NextNav ==
    \/ NavLoadQueue
    \/ CmdNext
    \/ CmdPrevious
    \/ EvLoaded

SpecNav == Init /\ [][NextNav]_vars

----------------------------------------------------------------------------
(* Playback: a queue is loaded into a stopped player and played; the worker *)
(* reports positions and ends of tracks, the user goes back, pauses and     *)
(* reconfigures the crossfade.                                              *)

NextPlayback ==
    \/ NavLoadQueue
    \/ EvLoaded
    \/ EvPreloaded
    \/ EvPosition
    \/ EvEndOfTrack
    \/ CmdConfigure
    \/ CmdPrevious
    \/ CmdPauseOrResume

SpecPlayback == Init /\ [][NextPlayback]_vars

----------------------------------------------------------------------------
(* Bursts of load requests: LoadAndPlay and Preload commands arrive faster  *)
(* than the loads complete; up to MaxLoads threads run at once.             *)

BurstStep(event, r) ==
    /\ CompletedWithin(MaxLoads, event, NameHandles(MarkLeft(r)))
    /\ UNCHANGED <<oracle, skips>>

BurstLoadAndPlay ==
    \E item \in Items :
        BurstStep([type |-> "LoadAndPlay", item |-> item], load_and_play(Self, item))

BurstPreload ==
    \E item \in Items :
        BurstStep([type |-> "Preload", item |-> item], preload(Self, item))

BurstLoadedOf(item) ==
    \E t \in threads : \E ok \in BOOLEAN :
        /\ t.posts = "Loaded"
        /\ t.item = item
        /\ BurstStep([type |-> "Loaded", item |-> t.item, ok |-> ok, handle |-> t.handle],
                     handle_loaded([Self EXCEPT !.threads = @ \ {t}], t.item, ok))

BurstPreloadedOf(item) ==
    \E t \in threads : \E ok \in BOOLEAN :
        /\ t.posts = "Preloaded"
        /\ t.item = item
        /\ BurstStep([type |-> "Preloaded", item |-> t.item, ok |-> ok, handle |-> t.handle],
                     handle_preloaded([Self EXCEPT !.threads = @ \ {t}], t.item, ok))

BurstLoaded == \E item \in Items : BurstLoadedOf(item)

BurstPreloaded == \E item \in Items : BurstPreloadedOf(item)

NextBurst ==
    \/ BurstLoadAndPlay
    \/ BurstPreload
    \/ BurstLoaded
    \/ BurstPreloaded

SpecBurst == Init /\ [][NextBurst]_vars

\* Every background operation completes: a thread that runs `item.load` and
\* then sends its event is not delayed forever.
SpecBurstFair ==
    /\ SpecBurst
    /\ \A item \in Items : WF_vars(BurstLoadedOf(item)) /\ WF_vars(BurstPreloadedOf(item))

----------------------------------------------------------------------------
(* Settling: a queue is loaded or not, LoadAndPlay and Preload commands     *)
(* arrive in a burst, and from the first result on no further command is    *)
(* issued: only the results of the background threads are handled.          *)

InBurst == last.type \notin {"Loaded", "Preloaded"}

SettleLoadQueue ==
    /\ last.type = "New"
    /\ \E items \in Queues : \E position \in 0..(Len(items) - 1) :
          BurstStep([type |-> "LoadQueue", items |-> items, position |-> position],
                    load_queue(Self, items, position))

SettleLoadAndPlay == InBurst /\ BurstLoadAndPlay

SettlePreload == InBurst /\ BurstPreload

NextSettle ==
    \/ SettleLoadQueue
    \/ SettleLoadAndPlay
    \/ SettlePreload
    \/ BurstLoaded
    \/ BurstPreloaded

ResultHandled == BurstLoaded \/ BurstPreloaded

\* Every background operation completes: while a thread is running, the
\* result of some thread is handled in the end; here that is every thread,
\* since only finitely many are ever spawned.  This is WF_vars(ResultHandled)
\* with ENABLED <<ResultHandled>>_vars written out: a result can be handled
\* exactly when a thread is running.
SpecSettle ==
    /\ Init
    /\ [][NextSettle]_vars
    /\ \/ []<>(threads = {})
       \/ []<><<ResultHandled>>_vars

----------------------------------------------------------------------------
(* The crossfade mixer on its own: the playback worker queues commands on   *)
(* the control channel, the audio output calls write with buffers of any    *)
(* size.  Every source handed to the mixer has the output's channel count.  *)

InitMixer ==
    /\ player = PlayerNew
    /\ threads = {}
    /\ worker = FALSE
    /\ effects = <<>>
    /\ last = [type |-> "New"]
    /\ oracle = [free |-> TRUE, failing |-> {}]
    /\ skips = 0
    /\ requested = <<>>
    /\ mixer \in {CrossfadeSourceNew(Source(1, channels)) : channels \in ChannelCounts}
    /\ written = NoWrite
    /\ stage = NoStage
    /\ staged = NoOutput
    /\ cache = Skeleton
    /\ io = NoCall
    /\ snapshot = NoSnapshot

\* Sender<CrossfadeCommand>::send
MixerSend(msg) ==
    /\ Len(mixer.receiver) < MaxPending
    /\ mixer' = [mixer EXCEPT !.receiver = Append(@, msg)]
    /\ UNCHANGED <<player, threads, worker, effects, last, oracle, skips, requested, written,
                   stage, staged, cache, io, snapshot>>

SendReplaceSource ==
    \E id \in SourceIds : MixerSend(ReplaceSource(Source(id, mixer.channels)))

SendStartCrossfade ==
    \E id \in SourceIds : \E duration_frames \in 0..MaxFadeFrames :
        MixerSend(StartCrossfade(Source(id, mixer.channels), duration_frames))

SendClear == MixerSend(Clear)

WroteFinding(pending, len, r) ==
    /\ mixer' = r.mixer
    /\ written' = [len |-> len, received |-> IF mixer.receiver = <<>> THEN <<>>
                                ELSE <<mixer.receiver[Len(mixer.receiver)]>>,
                   fading |-> mixer.fade # <<>>,
                   pending |-> pending,
                   drained |-> r.drained, buffer |-> r.buffer, returned |-> r.returned]
    /\ UNCHANGED <<player, threads, worker, effects, last, oracle, skips, requested,
                   stage, staged, cache, io, snapshot>>

Wrote(len, r) == WroteFinding(<<>>, len, r)

MixerWrite == \E len \in 0..MaxWriteLen : Wrote(len, crossfade_write(mixer, len))

NextMixer ==
    \/ SendReplaceSource
    \/ SendStartCrossfade
    \/ SendClear
    \/ MixerWrite

SpecMixer == InitMixer /\ [][NextMixer]_vars

----------------------------------------------------------------------------
(* Scripted runs of the control channel: the playback worker sends up to    *)
(* MaxQueued commands, then the audio output calls write once.  The mixer   *)
(* is new, or in the middle of a fade of two frames from source 1 to        *)
(* source 2, one frame of each pulled.                                      *)

Pulled(src, frames) == [src EXCEPT !.idx = frames * src.channels]

MidFade(channels) ==
    [CrossfadeSourceNew(Pulled(Source(1, channels), 1))
        EXCEPT !.next = <<Pulled(Source(2, channels), 1)>>,
               !.fade = <<FadeState(2, 1)>>]

InitDrain ==
    /\ player = PlayerNew
    /\ threads = {}
    /\ worker = FALSE
    /\ effects = <<>>
    /\ last = [type |-> "New"]
    /\ oracle = [free |-> TRUE, failing |-> {}]
    /\ skips = 0
    /\ requested = <<>>
    /\ mixer \in {CrossfadeSourceNew(Source(1, channels)) : channels \in ChannelCounts}
                    \cup {MidFade(channels) : channels \in ChannelCounts}
    /\ written = NoWrite
    /\ stage = NoStage
    /\ staged = NoOutput
    /\ cache = Skeleton
    /\ io = NoCall
    /\ snapshot = NoSnapshot

\* Sender<CrossfadeCommand>::send, before the write.
DrainSend(msg) ==
    /\ written = NoWrite
    /\ Len(mixer.receiver) < MaxQueued
    /\ mixer' = [mixer EXCEPT !.receiver = Append(@, msg)]
    /\ UNCHANGED <<player, threads, worker, effects, last, oracle, skips, requested, written,
                   stage, staged, cache, io, snapshot>>

DrainSendReplaceSource ==
    \E id \in SourceIds : DrainSend(ReplaceSource(Source(id, mixer.channels)))

DrainSendStartCrossfade ==
    \E id \in SourceIds : \E duration_frames \in 0..MaxFadeFrames :
        DrainSend(StartCrossfade(Source(id, mixer.channels), duration_frames))

DrainSendClear == DrainSend(Clear)

\* The one write of the run.
DrainWrite ==
    /\ written = NoWrite
    /\ \E len \in 0..MaxWriteLen :
          WroteFinding(mixer.receiver, len, crossfade_write(mixer, len))

NextDrain ==
    \/ DrainSendReplaceSource
    \/ DrainSendStartCrossfade
    \/ DrainSendClear
    \/ DrainWrite

SpecDrain == InitDrain /\ [][NextDrain]_vars

----------------------------------------------------------------------------
(* A pipeline stage on its own: the stage is built over a fresh source, or *)
(* over a source that has nothing to deliver, and the caller pulls it with  *)
(* buffers of any size, which hold stale samples or zeroes before the call. *)

EqConfigs ==
    {EqConfig(enabled, [band \in 1..Bands |-> IF band = peak THEN gain ELSE rest]) :
        enabled \in BOOLEAN, peak \in {1, Bands}, gain \in GainValues, rest \in {0, 10}}

Stages ==
    {StereoMappedSource(Source(1, input_channels), output_channels) :
        input_channels \in 2..MaxChannels, output_channels \in 2..MaxChannels}
    \cup {MonoSource(Source(1, channels)) : channels \in 1..MaxChannels}
    \cup {MonoSource(Empty)}
    \cup {MonoMappedSource(Source(1, 1), channels) : channels \in 1..MaxChannels}
    \cup {MonoSource(MonoMappedSource(Source(1, 1), channels)) : channels \in 1..MaxChannels}
    \cup {ResampledSource(Source(1, 1), chunk) : chunk \in 1..InputBlock}
    \cup {ResampledSource(Empty, chunk) : chunk \in 1..InputBlock}
    \cup {EqualizerSource(Source(1, channels), config) :
            channels \in {1, 2}, config \in EqConfigs}

InitStages ==
    /\ player = PlayerNew
    /\ threads = {}
    /\ worker = FALSE
    /\ effects = <<>>
    /\ last = [type |-> "New"]
    /\ oracle = [free |-> TRUE, failing |-> {}]
    /\ skips = 0
    /\ requested = <<>>
    /\ mixer = CrossfadeSourceNew(Empty)
    /\ written = NoWrite
    /\ stage \in Stages
    /\ staged = NoOutput
    /\ cache = Skeleton
    /\ io = NoCall
    /\ snapshot = NoSnapshot

\* The caller's buffer of len samples before the call.
Held(len, sample) == [i \in 1..len |-> sample]

\* stage.write(held) returned r.
StageWrote(held, r) ==
    /\ stage' = r.stage
    /\ staged' = [before |-> stage,
                  held |-> held,
                  buffer |-> r.buffer,
                  returned |-> r.returned,
                  upstream |-> r.upstream,
                  delivered |-> IF stage.kind = "Resampled"
                                THEN staged.delivered \o SubSeq(r.buffer, 1, r.returned)
                                ELSE <<>>]
    /\ UNCHANGED <<player, threads, worker, effects, last, oracle, skips, requested, mixer, written,
                   cache, io, snapshot>>

WriteStereoMapped ==
    /\ stage.kind = "StereoMapped"
    /\ \E len \in 0..MaxOutputLen : \E fill \in BufferFills :
          StageWrote(Held(len, fill), stereo_mapped_write(stage, Held(len, fill)))

WriteMono ==
    /\ stage.kind = "Mono"
    /\ \E len \in 0..MaxOutputLen : \E fill \in BufferFills :
          StageWrote(Held(len, Frac(fill, 1)), mono_write(stage, Held(len, Frac(fill, 1))))

WriteMonoMapped ==
    /\ stage.kind = "MonoMapped"
    /\ \E len \in 0..MaxOutputLen : \E fill \in BufferFills :
          StageWrote(Held(len, fill), mono_mapped_write(stage, Held(len, fill)))

WriteResampled ==
    /\ stage.kind = "Resampled"
    /\ \E len \in 0..MaxOutputLen :
          /\ Len(staged.delivered) + len <= MaxDelivered
          /\ StageWrote(Held(len, Stale), resampled_write(stage, Held(len, Stale)))

WriteEqualizer ==
    /\ stage.kind = "Equalizer"
    /\ \E len \in 0..MaxOutputLen : \E fill \in BufferFills :
          StageWrote(Held(len, Raw(fill)), equalizer_write(stage, Held(len, Raw(fill))))

NextStages ==
    \/ WriteStereoMapped
    \/ WriteMono
    \/ WriteMonoMapped
    \/ WriteResampled
    \/ WriteEqualizer

SpecStages == InitStages /\ [][NextStages]_vars

----------------------------------------------------------------------------
(* Eviction: a tree left by earlier saves, then calls of                    *)
(* enforce_audio_limit with any budgets.                                    *)

\* The entries outside the audio files, all of one health: one per kind of
\* metadata, and a directory inside the audio directory.
Extras(health) ==
    {File("track", 1, 1, 0, health),
     File("episode", 1, 1, 0, health),
     File("key", 1, 1, 0, health),
     File("", 0, 1, 0, health),
     SubDir("audio", 0)}

\* n audio files, named 1..n.
AudioFiles(n, size, modified) ==
    {File("audio", f, size[f], modified[f], "ok") : f \in 1..n}

\* A tree of n audio files, with or without the other entries.
Tree(n, size, modified, extras) ==
    [dirs |-> Partitions, files |-> AudioFiles(n, size, modified) \cup extras]

InitCache ==
    /\ player = PlayerNew
    /\ threads = {}
    /\ worker = FALSE
    /\ effects = <<>>
    /\ last = [type |-> "New"]
    /\ oracle = [free |-> TRUE, failing |-> {}]
    /\ skips = 0
    /\ requested = <<>>
    /\ mixer = CrossfadeSourceNew(Empty)
    /\ written = NoWrite
    /\ stage = NoStage
    /\ staged = NoOutput
    /\ \E n \in 0..MaxAudioFiles :
          \E size \in [1..n -> Sizes] :
             \E modified \in [1..n -> 1..MaxAudioFiles] :
                \E extras \in {{}} \cup {Extras(health) : health \in Healths} :
                   cache = Tree(n, size, modified, extras)
    /\ io = NoCall
    /\ snapshot = NoSnapshot

\* A call on the cache returned.
Called(op, arg, tree, result, removed) ==
    /\ cache' = tree
    /\ io' = [op |-> op, arg |-> arg, result |-> result, before |-> cache, after |-> tree,
              removed |-> removed, clear |-> io.clear]
    /\ UNCHANGED <<player, threads, worker, effects, last, oracle, skips, requested, mixer, written,
                   stage, staged, snapshot>>

\* fs::read_dir(dir): the entries of a directory in the order the file system
\* lists them, which is not the order of their modification times: here by
\* name, with modification times given to the names in every way.
Listing(tree, dir) ==
    LET entries == {e \in tree.files : e.dir = dir}
    IN  [i \in 1..Cardinality(entries) |->
            CHOOSE e \in entries : Cardinality({f \in entries : f.name < e.name}) = i - 1]

Enforced(limit_bytes, r) == Called("enforce_audio_limit", limit_bytes, r.tree, r.result, r.removed)

EnforceAudioLimit ==
    \E limit_bytes \in Limits :
        Enforced(limit_bytes, enforce_audio_limit(cache, limit_bytes, Listing(cache, "audio")))

NextCache == EnforceAudioLimit

SpecCache == InitCache /\ [][NextCache]_vars

----------------------------------------------------------------------------
(* Readers, alone and beside Cache::clear: clear removes the entries of     *)
(* base one at a time and then makes the directories again; the readers'    *)
(* calls fall before, after and between any two of these steps.             *)

ClearTrees ==
    {Skeleton, Tree(0, <<>>, <<>>, {File("track", 1, 1, 0, "ok")})}
        \cup {Tree(1, <<1>>, <<1>>, Extras(health)) : health \in Healths}

GetTrack ==
    \E item_id \in Items : Called("get_track", item_id, cache, get_track(cache, item_id), <<>>)

GetEpisode ==
    \E item_id \in Items :
        Called("get_episode", item_id, cache, get_episode(cache, item_id), <<>>)

GetAudioKey ==
    \E item_id \in Items :
        Called("get_audio_key", item_id, cache, get_audio_key(cache, item_id, item_id), <<>>)

GetCountryCode == Called("get_country_code", 0, cache, get_country_code(cache), <<>>)

InitClear ==
    /\ player = PlayerNew
    /\ threads = {}
    /\ worker = FALSE
    /\ effects = <<>>
    /\ last = [type |-> "New"]
    /\ oracle = [free |-> TRUE, failing |-> {}]
    /\ skips = 0
    /\ requested = <<>>
    /\ mixer = CrossfadeSourceNew(Empty)
    /\ written = NoWrite
    /\ stage = NoStage
    /\ staged = NoOutput
    /\ cache \in ClearTrees
    /\ io = NoCall
    /\ snapshot = NoSnapshot

\* A step of Cache::clear was taken.
Cleared(tree, clear) ==
    /\ cache' = tree
    /\ io' = [io EXCEPT !.clear = clear]
    /\ UNCHANGED <<player, threads, worker, effects, last, oracle, skips, requested, mixer, written,
                   stage, staged, snapshot>>

\* fs::read_dir(&self.base)?
ClearBegin ==
    /\ io.clear = None
    /\ Cleared(cache, Some([todo |-> base_entries(cache), old |-> cache]))

\* The loop of Cache::clear, one entry per step, in the order of the listing.
ClearRemove ==
    /\ io.clear # None
    /\ \/ \E dir \in io.clear[1].todo.dirs :
              Cleared(remove_dir_all(cache, dir),
                      Some([io.clear[1] EXCEPT !.todo.dirs = @ \ {dir}]))
       \/ \E entry \in io.clear[1].todo.files :
              Cleared(remove_file(cache, entry),
                      Some([io.clear[1] EXCEPT !.todo.files = @ \ {entry}]))

\* create_cache_dirs(&self.base), and Cache::clear returns.
ClearCreateDirs ==
    /\ io.clear # None
    /\ io.clear[1].todo = [dirs |-> {}, files |-> {}]
    /\ Cleared(create_cache_dirs(cache), None)

NextClear ==
    \/ ClearBegin
    \/ ClearRemove
    \/ ClearCreateDirs
    \/ GetTrack
    \/ GetEpisode
    \/ GetAudioKey
    \/ GetCountryCode

SpecClear == InitClear /\ [][NextClear]_vars

----------------------------------------------------------------------------
(* Scripted runs: one queue is loaded into a new player and no further      *)
(* command is given; the load of an item fails iff the item is in           *)
(* oracle.failing.  `skips` counts the skip transitions of handle_loaded.   *)

ScriptItems == 1..5

ScriptQueues == {<<1, 2, 3, 4>>, <<1, 2, 3, 4, 5>>}

Logs(e, msg) == {i \in DOMAIN e : e[i].kind = "log" /\ e[i].msg = msg}

InitScripted ==
    /\ player = PlayerNew
    /\ threads = {}
    /\ worker = FALSE
    /\ effects = <<>>
    /\ last = [type |-> "New"]
    /\ oracle \in {[free |-> FALSE, failing |-> F] : F \in SUBSET ScriptItems}
    /\ skips = 0
    /\ requested = <<>>
    /\ mixer = CrossfadeSourceNew(Empty)
    /\ written = NoWrite
    /\ stage = NoStage
    /\ staged = NoOutput
    /\ cache = Skeleton
    /\ io = NoCall
    /\ snapshot = NoSnapshot

ScriptLoadQueue ==
    /\ last.type = "New"
    /\ \E items \in ScriptQueues :
           Handled([type |-> "LoadQueue", items |-> items, position |-> 0],
                   load_queue(Self, items, 0))
    /\ UNCHANGED <<oracle, skips>>

ScriptLoaded ==
    \E t \in threads : \E ok \in BOOLEAN :
        /\ t.posts = "Loaded"
        /\ ResultAllowed(t.item, ok)
        /\ Handled([type |-> "Loaded", item |-> t.item, ok |-> ok, handle |-> t.handle],
                   handle_loaded([Self EXCEPT !.threads = @ \ {t}], t.item, ok))
        /\ skips' = skips + Cardinality(Logs(effects', "skipping, error while loading"))
        /\ UNCHANGED oracle

NextScripted == ScriptLoadQueue \/ ScriptLoaded

SpecScripted == InitScripted /\ [][NextScripted]_vars

----------------------------------------------------------------------------
(* The playback snapshot: load_snapshot spawns its thread when the widget   *)
(* is added; from then on the GUI thread calls save_snapshot, one call at a *)
(* time, while the loader thread runs.  Each file-system call is one step.  *)
(* A previous run has left no file, a file that does not parse, or a        *)
(* snapshot.                                                                *)

InitSnapshot ==
    /\ player = PlayerNew
    /\ threads = {}
    /\ worker = FALSE
    /\ effects = <<>>
    /\ last = [type |-> "New"]
    /\ oracle = [free |-> TRUE, failing |-> {}]
    /\ skips = 0
    /\ requested = <<>>
    /\ mixer = CrossfadeSourceNew(Empty)
    /\ written = NoWrite
    /\ stage = NoStage
    /\ staged = NoOutput
    /\ cache = Skeleton
    /\ io = NoCall
    /\ snapshot \in {[NoSnapshot EXCEPT !.path = file] :
                        file \in {FileMissing, FileInvalid, FileValid(0)}}

Snap(s) ==
    /\ snapshot' = s
    /\ UNCHANGED <<player, threads, worker, effects, last, oracle, skips, requested,
                   mixer, written, stage, staged, cache, io>>

\* load_snapshot: thread::spawn
LoadSnapshot ==
    /\ snapshot.load = "idle"
    /\ Snap([snapshot EXCEPT !.load = "spawned"])

\* The loader thread: fs::read_to_string(&path) and parse_snapshot.
LoaderRead ==
    /\ snapshot.load = "spawned"
    /\ Snap([snapshot EXCEPT !.load = "read", !.read = parse_snapshot(snapshot.path)])

\* The loader thread: snapshot_opt is Some, RESTORE_SNAPSHOT_READY is
\* submitted and the thread ends.
LoaderSubmit ==
    /\ snapshot.load = "read"
    /\ snapshot.read # None
    /\ Snap([snapshot EXCEPT !.load = "done"])

\* The loader thread: snapshot_opt is None, fs::remove_file(&path), and the
\* thread ends.
LoaderRemove ==
    /\ snapshot.load = "read"
    /\ snapshot.read = None
    /\ Snap([snapshot EXCEPT !.load = "done",
                             !.removed = Some(snapshot.path),
                             !.path = FileMissing])

\* save_snapshot, up to SNAPSHOT_WRITE_LOCK.lock()
SaveSnapshot ==
    /\ snapshot.load # "idle"
    /\ snapshot.save = "idle"
    /\ snapshot.saves < MaxSaves
    /\ ~snapshot.lock
    /\ \E id \in SnapshotIds :
          Snap([snapshot EXCEPT !.save = "locked", !.saving = id, !.lock = TRUE,
                                !.saves = @ + 1])

\* save_snapshot returns and drops the guard.
Returned(s) == Snap([s EXCEPT !.save = "idle", !.saving = 0, !.lock = FALSE])

\* fs::File::create(&tmp)
SaveCreate ==
    /\ snapshot.save = "locked"
    /\ \/ Snap([snapshot EXCEPT !.save = "created", !.tmp = FilePartial(snapshot.saving)])
       \/ Returned(snapshot)

\* serde_json::to_writer and writer.flush(); fs::remove_file(&tmp) if
\* either fails.
SaveWrite ==
    /\ snapshot.save = "created"
    /\ \/ Snap([snapshot EXCEPT !.save = "written", !.tmp = FileValid(snapshot.saving)])
       \/ Returned([snapshot EXCEPT !.tmp = FileMissing])

\* fs::rename(&tmp, &path)
SaveRename ==
    /\ snapshot.save = "written"
    /\ \/ Returned([snapshot EXCEPT !.path = snapshot.tmp, !.tmp = FileMissing])
       \/ Returned(snapshot)

NextSnapshot ==
    \/ LoadSnapshot
    \/ LoaderRead
    \/ LoaderSubmit
    \/ LoaderRemove
    \/ SaveSnapshot
    \/ SaveCreate
    \/ SaveWrite
    \/ SaveRename

SpecSnapshot == InitSnapshot /\ [][NextSnapshot]_vars

----------------------------------------------------------------------------
(* Properties *)

Sends(e, type) == {i \in DOMAIN e : e[i].kind = "send" /\ e[i].event.type = type}

OfKind(e, kind) == {i \in DOMAIN e : e[i].kind = kind}

\* The handler that ran last started playback of `path` through play_loaded.
StartedPlayback(e, path) ==
    /\ \E i \in DOMAIN e : e[i] = Call("playback_mgr", [op |-> "play", path |-> path])
    /\ \E i \in DOMAIN e : e[i] = Sent([type |-> "Playing", path |-> path, position |-> 0])

\* A load result is acted upon: it starts playback or runs the failure policy.
ActedUpon(e) ==
    \/ Logs(e, "starting playback") # {}
    \/ Logs(e, "skipping, error while loading") # {}
    \/ Logs(e, "stopping, error while loading") # {}

\* The result of thread t is taken as the result of the current load.
AcceptedAsLoad(t) ==
    /\ player.state.tag = "Loading"
    /\ t.item = player.state.item
    /\ t.posts = "Preloaded" =>
           ~(player.preload.tag = "Preloading" /\ player.preload.item = t.item)

\* The step handles the event of thread t, which carries result ok.
Reports(t, ok) ==
    /\ last'.type \in {"Loaded", "Preloaded"}
    /\ t.handle = last'.handle
    /\ t.item = last'.item
    /\ t.posts = last'.type
    /\ ok = last'.ok

\* Player::stop ran within the step.
StoppedNow ==
    /\ player'.state = Stopped
    /\ Sends(effects', "Stopped") # {}
    /\ player'.queue = queue_clear(player.queue)
    /\ player'.consecutive_loading_failures = 0

\* The same threads are running, whatever their handles are called.
SameThreads(T1, T2) ==
    \A u \in T1 \cup T2 :
        Cardinality({v \in T1 : v.item = u.item /\ v.posts = u.posts})
            = Cardinality({v \in T2 : v.item = u.item /\ v.posts = u.posts})

HasNextItem == player.queue.position + 1 < Len(player.queue.items)

NextItem == player.queue.items[player.queue.position + 2]

(* C1 *)

FirstThreeFailFourthSucceeds == ~oracle.free /\ oracle.failing \cap {1, 2, 3, 4} = {1, 2, 3}

RunFinished == last.type # "New" /\ threads = {}

\* C2 as stated: with a queue of at least 4 items whose first 3 loads fail and
\* whose 4th succeeds, the run ends after exactly 3 skips with item 4 playing.
C2_ThreeSkipsThenPlaysItem4 ==
    (FirstThreeFailFourthSucceeds /\ RunFinished)
        => (skips = 3 /\ player.state = Playing(MediaPath(4), 0))

\* C2 amended: with a queue of at least 4 items whose first 3 loads fail, the
\* player performs exactly 2 skips and stops on the third failure (Stopped,
\* queue cleared, counter 0); item 4 is never loaded or played.
C2_TwoSkipsThenStopped ==
    FirstThreeFailFourthSucceeds
        => /\ RunFinished => /\ skips = 2
                             /\ player.state = Stopped
                             /\ player.queue = QueueNew
                             /\ player.consecutive_loading_failures = 0
           /\ skips <= 2
           /\ \A t \in threads : t.item # 4
           /\ player.state.tag = "Loading" => player.state.item # 4
           /\ player.state.tag # "Playing"

C2_Witness ==
    /\ FirstThreeFailFourthSucceeds
    /\ RunFinished
    /\ skips = 2
    /\ Logs(effects, "stopping, error while loading") # {}

(* C3 *)

\* C3 as stated: an accepted failed load increments the counter; below 3 the
\* player advances to the next queue item and loads it, otherwise it stops and
\* the counter is reset to 0.
C3_FailureSkipsOrStops ==
    [][\A t \in threads :
          (Reports(t, FALSE) /\ AcceptedAsLoad(t))
              => IF player.consecutive_loading_failures + 1 < 3
                 THEN /\ HasNextItem
                      /\ player'.consecutive_loading_failures
                             = player.consecutive_loading_failures + 1
                      /\ player'.queue = queue_skip_to_next(player.queue)
                      /\ player'.state.tag = "Loading"
                      /\ player'.state.item = NextItem
                 ELSE StoppedNow]_vars

\* C3 amended: an accepted failed load increments the counter by one; if the
\* counter is then below 3 the player advances the queue cursor and, when the
\* queue has a next item, loads it (or starts it at once when it is already
\* preloaded) keeping the incremented counter; when the queue has no next item
\* or the counter has reached 3, it stops (state Stopped, Stopped event, queue
\* cleared) and the counter is reset to 0.
C3_FailureSkipsOrStopsOrExhausts ==
    [][\A t \in threads :
          (Reports(t, FALSE) /\ AcceptedAsLoad(t))
              => IF player.consecutive_loading_failures + 1 < 3 /\ HasNextItem
                 THEN /\ player'.consecutive_loading_failures
                             = player.consecutive_loading_failures + 1
                      /\ player'.queue = queue_skip_to_next(player.queue)
                      /\ IF player.preload.tag = "Preloaded" /\ player.preload.item = NextItem
                         THEN player'.state = Playing(MediaPath(NextItem), 0)
                         ELSE /\ player'.state.tag = "Loading"
                              /\ player'.state.item = NextItem
                 ELSE StoppedNow]_vars

\* The third consecutive failure stopped the player and reset the counter.
C3_Witness ==
    /\ last.type = "Loaded"
    /\ Logs(effects, "stopping, error while loading") # {}
    /\ player.state = Stopped
    /\ player.consecutive_loading_failures = 0

(* C4 *)

\* C4: Pause or Resume handled while Loading or Stopped changes nothing and
\* emits no Pausing/Resuming event; from Playing or Paused, Pause yields Paused
\* and Resume yields Playing with the same path and position.
C4_PauseResumeOnlyBetweenPlayingAndPaused ==
    [][(last'.type \in {"Pause", "Resume"} /\ player.state.tag \in {"Loading", "Stopped", "Playing", "Paused"})
          => IF player.state.tag \in {"Loading", "Stopped"}
             THEN /\ player'.state = player.state
                  /\ Sends(effects', "Pausing") = {}
                  /\ Sends(effects', "Resuming") = {}
             ELSE player'.state =
                      IF last'.type = "Pause"
                      THEN Paused(player.state.path, player.state.position)
                      ELSE Playing(player.state.path, player.state.position)]_vars

(* C5 *)

\* C5: once a handler has completed, PlayerState is never Invalid.
C5_InvalidIsTransient == player.state.tag # "Invalid"

(* C6 *)

\* C6: while the player is Loading an item, at most one background thread is
\* in flight for that item.
C6_OneLoadInFlightForLoadingItem ==
    player.state.tag = "Loading"
        => Cardinality({t \in threads : t.item = player.state.item}) <= 1

(* C7 *)

Discarded(t) ==
    /\ player' = player
    /\ SameThreads(threads', threads \ {t})
    /\ OfKind(effects', "send") = {}
    /\ OfKind(effects', "call") = {}
    /\ OfKind(effects', "spawn") = {}

C8_AdoptedPreloadIsTheLoad ==
    [][/\ \A item \in Items :
             (last' = [type |-> "LoadAndPlay", item |-> item] /\ player.preload.tag = "Preloading"
                                /\ player.preload.item = item)
                 => /\ OfKind(effects', "spawn") = {}
                    /\ SameThreads(threads', threads)
                    /\ player'.preload = PreloadNone
                    /\ player'.state.tag = "Loading"
                    /\ player'.state.item = item
                    /\ \A u \in threads' : u.handle = player'.state.loading_handle
                           => (u.item = item /\ u.posts = "Preloaded")
       /\ \A t \in threads : \A ok \in BOOLEAN :
             (/\ (Reports(t, ok) /\ t.posts = "Preloaded")
              /\ player.state.tag = "Loading"
              /\ player.state.item = t.item
              /\ player.state.loading_handle = t.handle)
                 => IF ok
                    THEN /\ player'.state = Playing(MediaPath(t.item), 0)
                         /\ StartedPlayback(effects', MediaPath(t.item))
                    ELSE \/ Logs(effects', "skipping, error while loading") # {}
                         \/ Logs(effects', "stopping, error while loading") # {}]_vars

(* C9 *)

\* C9: LoadAndPlay(X) while Preloaded(X) spawns nothing, emits no Loading
\* event, empties the preload slot and, within the same handler, makes the
\* state Playing for X at position 0 and emits Playing for X.
C9_PreloadedItemPlaysAtOnce ==
    [][\A item \in Items :
          (last' = [type |-> "LoadAndPlay", item |-> item] /\ player.preload.tag = "Preloaded"
                             /\ player.preload.item = item)
              => /\ OfKind(effects', "spawn") = {}
                 /\ SameThreads(threads', threads)
                 /\ Sends(effects', "Loading") = {}
                 /\ player'.preload = PreloadNone
                 /\ player'.state = Playing(MediaPath(item), 0)
                 /\ StartedPlayback(effects', MediaPath(item))]_vars

\* LoadAndPlay found its item preloaded and started it without a load.
C9_Witness ==
    /\ last.type = "LoadAndPlay"
    /\ player.state.tag = "Playing"
    /\ player.preload = PreloadNone
    /\ OfKind(effects, "spawn") = {}
    /\ Logs(effects, "starting playback") # {}

(* C10 *)

\* C10: the consecutive-failure counter is 0 right after every successful
\* start of playback (accepted Ok result, promotion of a Preloaded item,
\* successful crossfade) and right after Stop.
C10_CounterZeroAfterStartAndStop ==
    /\ Sends(effects, "Playing") # {} => player.consecutive_loading_failures = 0
    /\ Sends(effects, "Stopped") # {} => player.consecutive_loading_failures = 0

(* C11 *)

\* C11: at any time at most 2 background load/preload threads exist that have
\* not yet posted their result.
C11_AtMostTwoBackgroundOperations == Cardinality(threads) <= 2

(* C12 *)

\* The calls to PlaybackManager::start_crossfade made by a handler.
CrossfadeCalls(e) ==
    {i \in DOMAIN e : /\ e[i].kind = "call"
                      /\ e[i].target = "playback_mgr"
                      /\ e[i].what.op = "start_crossfade"}

\* The handler started a crossfade and the playback manager accepted it.
CrossfadeSucceeded(e) == \E i \in CrossfadeCalls(e) : e[i].what.answer

\* The item at the cursor is loaded, or played at once when it is preloaded.
LoadsOrPlays(item) ==
    IF player.preload.tag = "Preloaded" /\ player.preload.item = item
    THEN player'.state = Playing(MediaPath(item), 0)
    ELSE player'.state.tag = "Loading" /\ player'.state.item = item

C13_CrossfadeOnlyWhenDue ==
    [][CrossfadeCalls(effects') # {}
          => /\ last'.type = "Position"
             /\ player.state.tag = "Playing"
             /\ player.config.crossfade_duration > 0
             /\ checked_sub_or_default(player.state.path.duration, last'.position)
                    <= player.config.crossfade_duration
             /\ HasNextItem
             /\ player.preload.tag = "Preloaded"
             /\ player.preload.item = NextItem]_vars

\* A crossfade was requested by a report past the end of the track.
C13_Witness ==
    /\ last.type = "Position"
    /\ last.position > DurationOf(last.path.item_id)
    /\ CrossfadeCalls(effects) # {}

(* C14 *)

\* C14: when the playback manager accepts a crossfade, the preloaded item
\* leaves PreloadState (None), the queue cursor advances to the following
\* item, PlayerState becomes Playing with that item's path at position 0, and
\* the handler emits exactly one Playing event, for the new track at position
\* 0, no Loading event, and does not stop the audio sink.
C14_CrossfadeSwitchesTrack ==
    [][CrossfadeSucceeded(effects')
          => /\ player'.preload = PreloadNone
             /\ player'.queue = queue_skip_to_following(player.queue)
             /\ queue_get_current(player'.queue) = <<NextItem>>
             /\ player'.state = Playing(MediaPath(NextItem), 0)
             /\ Cardinality(Sends(effects', "Playing")) = 1
             /\ \A i \in Sends(effects', "Playing") :
                    effects'[i].event = [type |-> "Playing", path |-> MediaPath(NextItem),
                                         position |-> 0]
             /\ Sends(effects', "Loading") = {}
             /\ OfKind(effects', "spawn") = {}
             /\ \A i \in OfKind(effects', "call") : effects'[i].target # "sink"]_vars

\* A crossfade from item 1 to item 2 was accepted.
C14_Witness ==
    /\ CrossfadeSucceeded(effects)
    /\ player.state = Playing(MediaPath(2), 0)
    /\ player.queue.position = 2

(* C15 *)

\* The step handles a Position report for the track that is Playing or Paused.
AcceptedPosition ==
    /\ last'.type = "Position"
    /\ player.state.tag \in {"Playing", "Paused"}
    /\ player.state.path.item_id = last'.path.item_id
    /\ player.state.path.file_id = last'.path.file_id

\* Time left in the current track according to the report being handled.
TimeLeft == checked_sub_or_default(player.state.path.duration, last'.position)

InPreloadSlot(item) ==
    player.preload.tag \in {"Preloading", "Preloaded"} /\ player.preload.item = item

\* The handler spawned exactly one thread, a preload of `item`, and holds it.
SpawnedOnePreload(item) ==
    /\ Cardinality(OfKind(effects', "spawn")) = 1
    /\ \A i \in OfKind(effects', "spawn") : effects'[i] = Spawn(item, "Preloaded")
    /\ player'.preload.tag = "Preloading"
    /\ player'.preload.item = item

\* C15 as stated: an accepted Position report leaving at most 30 s spawns one
\* preload of the queue's following item unless that item is already
\* Preloading or Preloaded; in that case, and with more than 30 s left, it
\* spawns nothing.
C15_PreloadOnlyInWindowAndNotInSlot ==
    [][AcceptedPosition
          => IF TimeLeft <= 30 /\ HasNextItem /\ ~InPreloadSlot(NextItem)
             THEN SpawnedOnePreload(NextItem)
             ELSE OfKind(effects', "spawn") = {}]_vars

\* C15 amended: an accepted Position report leaving at most 30 s spawns one
\* preload of the queue's following item unless that item is already
\* Preloading or Preloaded.  When the following item is Preloaded and the
\* crossfade the report triggers is refused by the playback manager, the
\* loaded item is dropped and one preload of it is spawned again, inside or
\* outside the 30 s window.  Every other Position report spawns nothing.
C15_PreloadInWindowOrAfterRefusedCrossfade ==
    [][AcceptedPosition
          => IF \/ TimeLeft <= 30 /\ HasNextItem /\ ~InPreloadSlot(NextItem)
                \/ CrossfadeCalls(effects') # {} /\ ~CrossfadeSucceeded(effects')
             THEN SpawnedOnePreload(NextItem)
             ELSE OfKind(effects', "spawn") = {}]_vars

\* A report exactly 30 s before the end started the preload of the next item.
C15_Witness ==
    /\ last.type = "Position"
    /\ last.position = DurationOf(last.path.item_id) - 30
    /\ OfKind(effects, "spawn") # {}
    /\ CrossfadeCalls(effects) = {}
    /\ player.preload.tag = "Preloading"

(* C16 *)

\* C16: a Position report whose path differs from the current track's path in
\* item_id or file_id, or that arrives while the player is Loading or Stopped,
\* is discarded: stored position, PlayerState, PreloadState and queue (the
\* whole Player) are unchanged, no thread is spawned and nothing is called or
\* sent, so neither a preload nor a crossfade is triggered.
C16_StalePositionDiscarded ==
    [][(/\ last'.type = "Position"
        /\ \/ player.state.tag \in {"Loading", "Stopped"}
           \/ /\ player.state.tag \in {"Playing", "Paused"}
              /\ \/ player.state.path.item_id # last'.path.item_id
                 \/ player.state.path.file_id # last'.path.file_id)
          => /\ player' = player
             /\ threads' = threads
             /\ OfKind(effects', "spawn") = {}
             /\ OfKind(effects', "call") = {}
             /\ OfKind(effects', "send") = {}]_vars

\* A report for another file of the item being played was discarded.
C16_Witness ==
    /\ last.type = "Position"
    /\ player.state.tag = "Playing"
    /\ player.state.path.item_id = last.path.item_id
    /\ player.state.path.file_id # last.path.file_id
    /\ player.state.position # last.position
    /\ effects = <<Logged("ignoring stale position report")>>

(* C17 *)

\* Previous only asked the playback manager to seek to zero.
SeeksToZero ==
    /\ effects' = <<Call("playback_mgr", [op |-> "seek", position |-> 0])>>
    /\ player' = player
    /\ threads' = threads

\* Previous moved the cursor back and loaded the item there, or stopped.
NavigatesBackward ==
    LET q == queue_skip_to_previous(player.queue)
        cur == queue_get_current(q)
    IN  IF cur # <<>>
        THEN /\ player'.queue = q
             /\ LoadsOrPlays(cur[1])
             /\ \E i \in OfKind(effects', "call") : effects'[i] = Call("sink", "stop")
        ELSE StoppedNow

\* C17 as stated: Previous seeks to zero, leaving cursor and PlayerState
\* unchanged, exactly when the current position is more than 3 s into the
\* track; in every other case it moves the cursor backward and loads the
\* resulting current item, or stops if there is none.
C17_PreviousSeeksOnlyBeyondThreshold ==
    [][last'.type = "Previous"
          => IF player.state.tag \in {"Playing", "Paused"} /\ player.state.position > 3
             THEN SeeksToZero
             ELSE NavigatesBackward]_vars

\* C17 amended: Previous moves the cursor backward and loads the resulting
\* current item (or stops if there is none) exactly when the player is Playing
\* or Paused less than 3 s into the track; in every other case, at 3 s or
\* more and whenever the player is neither Playing nor Paused, it only seeks
\* to zero and leaves cursor and PlayerState unchanged.
C17_PreviousNavigatesOnlyNearStart ==
    [][last'.type = "Previous"
          => IF player.state.tag \in {"Playing", "Paused"} /\ player.state.position < 3
             THEN NavigatesBackward
             ELSE SeeksToZero]_vars

\* Previous, handled exactly 3 s into a track, restarted that track.
C17_Witness ==
    /\ last.type = "Previous"
    /\ player.state.tag \in {"Playing", "Paused"}
    /\ player.state.position = 3
    /\ effects = <<Call("playback_mgr", [op |-> "seek", position |-> 0])>>

(* C18 *)

\* C18: from any player state, Next advances the queue cursor and hands the
\* new current item to load_and_play (Loading, or Playing at once when it is
\* preloaded); when the queue is exhausted the player stops: a Stopped event
\* is emitted, PlayerState is Stopped, the queue is empty and the failure
\* counter is 0.  An explicit Stop has these effects from any state.
C18_NextAdvancesOrStops ==
    [][/\ last'.type = "Next"
             => IF HasNextItem
                THEN /\ player'.queue = queue_skip_to_next(player.queue)
                     /\ LoadsOrPlays(NextItem)
                ELSE /\ StoppedNow
                     /\ player'.queue = QueueNew
       /\ last'.type = "Stop"
             => /\ StoppedNow
                /\ player'.queue = QueueNew]_vars

\* Next, handled at the last item of the queue, stopped the player.
C18_Witness ==
    /\ last.type = "Next"
    /\ player.state = Stopped
    /\ player.queue = QueueNew
    /\ Sends(effects, "Stopped") # {}

(* C19 *)

\* The handler that ran last emitted Loading{item}.
EmittedLoading(item) ==
    \E i \in Sends(effects, "Loading") : effects[i].event.item = item

\* C19: when every background operation completes, every Loading{item} event
\* emitted by the player is eventually followed by a Loaded{item} event.
C19_LoadingFollowedByLoaded ==
    \A item \in Items :
        EmittedLoading(item) ~> (last.type = "Loaded" /\ last.item = item)

(* C20 *)

\* The last write mixed two sources.
Mixed == written.drained.fade # <<>> /\ written.returned > 0

\* The i-th sample (from 1) a source delivers to a write: its next sample, or
\* silence once it has ended.
DeliveredBy(src, i) ==
    IF src.idx + i - 1 < src.len THEN SampleOf(src.id, src.idx + i - 1) ELSE 0

\* The fade offset of the frame that holds the i-th sample of the last write.
FadeOffset(i) ==
    written.drained.fade[1].pos_frames + (i - 1) \div written.drained.channels

\* C20: while a fade of D > 0 frames is active, the output sample of the frame
\* at fade offset f is current*((D-f)/D) + next*(f/D) when f < D, over writes
\* of any sizes, and is the sample of the next source when f >= D; the write
\* that reaches offset D makes the next source the current one and ends the
\* fade, and a write without a fade delivers exactly the samples of the
\* current source.
C20_CrossfadeConservation ==
    /\ Mixed
          => \A i \in 1..written.returned :
                LET D == written.drained.fade[1].total_frames
                    f == FadeOffset(i)
                    out == written.buffer[i]
                    current == DeliveredBy(written.drained.current, i)
                    next_sample == IF written.drained.next # <<>>
                                   THEN DeliveredBy(written.drained.next[1], i)
                                   ELSE 0
                IN  /\ D > 0
                    /\ IF f < D
                       THEN out.n * D = (current * (D - f) + next_sample * f) * out.d
                       ELSE out.n = next_sample * out.d
    /\ (Mixed /\ FadeOffset(written.returned + 1) >= written.drained.fade[1].total_frames)
          => /\ mixer.fade = <<>>
             /\ mixer.next = <<>>
             /\ written.drained.next # <<>>
             /\ mixer.current.id = written.drained.next[1].id
             /\ mixer.current.idx = Min(written.drained.next[1].idx + written.returned,
                                        written.drained.next[1].len)
    /\ written.drained.fade = <<>>
          => /\ written.returned =
                    Min(IF written.drained.current.channels = 0
                        THEN 0
                        ELSE written.len - (written.len % written.drained.current.channels),
                        written.drained.current.len - written.drained.current.idx)
             /\ \A i \in 1..written.returned :
                    written.buffer[i] = Frac(DeliveredBy(written.drained.current, i), 1)

\* A fade of 2 frames that began in an earlier write was finished by a write
\* of 2 frames, the second of them past the end of the fade, while both
\* sources still had samples.
C20_Witness ==
    /\ Mixed
    /\ written.drained.fade[1] = FadeState(2, 1)
    /\ written.returned = 2 * written.drained.channels
    /\ written.drained.current.idx + written.returned <= written.drained.current.len
    /\ written.drained.next[1].idx + written.returned <= written.drained.next[1].len
    /\ written.drained.current.id # written.drained.next[1].id
    /\ mixer.fade = <<>>

(* C21 *)

\* The command drained last by the last write.
LastReceived == written.received[Len(written.received)]

\* ReplaceSource, Clear, or StartCrossfade with a duration of 0 frames.
HardCut(msg) ==
    \/ msg.type \in {"ReplaceSource", "Clear"}
    \/ msg.type = "StartCrossfade" /\ msg.duration_frames = 0

\* The source a hard cut makes current.
CutTo(msg) ==
    IF msg.type = "ReplaceSource" THEN msg.source
    ELSE IF msg.type = "StartCrossfade" THEN msg.next
    ELSE Empty

\* The last write delivered the samples of src from its read position on and
\* nothing else, and left the mixer with src, read that far, as the only source.
PassedThrough(src) ==
    /\ written.returned =
           Min(IF src.channels = 0 THEN 0 ELSE written.len - (written.len % src.channels),
               src.len - src.idx)
    /\ Len(written.buffer) = written.returned
    /\ \A i \in 1..written.returned :
           written.buffer[i] = Frac(SampleOf(src.id, src.idx + i - 1), 1)
    /\ mixer.current = [src EXCEPT !.idx = @ + written.returned]
    /\ mixer.next = <<>>
    /\ mixer.fade = <<>>

\* C21: when the command drained last by a write is ReplaceSource, Clear or
\* StartCrossfade with 0 frames, the drained mixer has no fade and no next
\* source, whether or not a fade was active, its current source is the source
\* of the command (Empty after Clear), and the write delivers that source's
\* samples unblended; a write that finds no command and no fade passes
\* straight through to the current source as well.
C21_HardCuts ==
    /\ (written.received # <<>> /\ HardCut(LastReceived))
          => /\ written.drained.fade = <<>>
             /\ written.drained.next = <<>>
             /\ written.drained.current = CutTo(LastReceived)
             /\ PassedThrough(CutTo(LastReceived))
    /\ (written # NoWrite /\ written.received = <<>> /\ ~written.fading)
          => /\ written.drained.fade = <<>>
             /\ written.drained.next = <<>>
             /\ PassedThrough(written.drained.current)

\* A write found a fade in progress and StartCrossfade with 0 frames on the
\* channel, and delivered samples of the new source.
C21_Witness ==
    /\ written.fading
    /\ written.received # <<>>
    /\ LastReceived.type = "StartCrossfade"
    /\ LastReceived.duration_frames = 0
    /\ written.returned > 0
    /\ mixer.receiver = <<>>

(* C22 *)

\* next is present iff a fade is active, and an active fade is inside its
\* duration.
WellFormed(cs) ==
    /\ Len(cs.next) <= 1
    /\ Len(cs.fade) <= 1
    /\ cs.next # <<>> <=> cs.fade # <<>>
    /\ cs.fade # <<>>
          => /\ cs.fade[1].total_frames > 0
             /\ 0 <= cs.fade[1].pos_frames
             /\ cs.fade[1].pos_frames < cs.fade[1].total_frames

\* C22: the mixer as the last command drain left it and the mixer as the last
\* write left it hold one current source and at most one next source, a next
\* source iff a fade is active, and an active fade has total_frames > 0 and
\* 0 <= pos_frames < total_frames.
C22_MixerWellFormed ==
    /\ WellFormed(written.drained)
    /\ WellFormed(mixer)

\* A write advanced a fade of 2 frames by one frame and left it active.
C22_Witness ==
    /\ written.drained.fade = <<FadeState(2, 0)>>
    /\ written.returned > 0
    /\ mixer.fade = <<FadeState(2, 1)>>
    /\ mixer.next # <<>>

(* C23 *)

\* The last write asked its upstream source for more samples than it got.
ShortUpstream ==
    /\ staged.upstream # <<>>
    /\ staged.upstream[1].returned < staged.upstream[1].asked

\* The idx-th sample of the caller's buffer comes from a sample the upstream
\* source wrote during the last write.
Derived(idx) ==
    LET before == staged.before
        got == staged.upstream[1].returned
    IN  IF before.kind = "StereoMapped"
        THEN /\ (idx - 1) % before.output_channels < 2
             /\ (idx - 1) \div before.output_channels < got \div before.input_channels
        ELSE IF before.kind = "Mono"
        THEN idx <= got \div before.input_channels
        ELSE idx <= got * before.output_channels

\* The sample is silence.
IsZero(sample) == IF staged.before.kind = "Mono" THEN sample.n = 0 ELSE sample = 0

\* C23: after a write of a StereoMappedSource, a MonoSource or a
\* MonoMappedSource whose upstream source wrote fewer samples than it was
\* asked for, every sample of the caller's buffer that does not come from
\* upstream data is 0, whatever the buffer held before the call.
C23_PartialUpstreamZeroFilled ==
    (staged.before.kind \in {"StereoMapped", "Mono", "MonoMapped"} /\ ShortUpstream)
        => \A idx \in 1..Len(staged.buffer) :
              ~Derived(idx) => IsZero(staged.buffer[idx])

(* C24 *)

\* The last write went to a MonoSource over a MonoMappedSource.
RoundTrip == staged.before.kind = "Mono" /\ "kind" \in DOMAIN staged.before.source

\* What the mono source under both mappers would have written to a buffer of
\* the same length.
Direct == source_write(staged.before.source.source, Len(staged.held))

\* C24: a MonoSource over a MonoMappedSource that broadcasts a mono source to
\* N channels returns, for a request of any length, the sample count the mono
\* source returns for that length, and its samples are the mono source's
\* samples; both leave the mono source at the same position.
C24_BroadcastThenDownmix ==
    RoundTrip
        => /\ staged.returned = Direct.returned
           /\ \A i \in 1..staged.returned :
                 staged.buffer[i].n = Direct.samples[i] * staged.buffer[i].d
           /\ stage.source.source = Direct.source

\* The round trip over the most channels, with a request that the mono
\* source could only serve in part.
C24_Witness ==
    /\ RoundTrip
    /\ staged.before.input_channels = MaxChannels
    /\ staged.returned > 0
    /\ staged.returned < Len(staged.held)

(* C25 *)

\* The first n samples of the stream the resampled source pulls: the samples
\* of its upstream source, then the zeroes its input block is filled up with.
InputStream(n) ==
    [k \in 1..n |-> DeliveredBy([stage.source EXCEPT !.idx = 0], k)]

\* C25: the samples a ResampledSource has delivered over all its writes,
\* followed by the converted samples it still holds, are the samples its
\* resampler has put out, in order; these are the conversion of the input
\* stream in one piece, whatever the sizes of the requests and however much
\* input the resampler takes per call; and every write fills its request.
C25_ResampledStreamUnbroken ==
    stage.kind = "Resampled"
        => /\ staged.delivered \o buf_get(stage.out) = stage.converted
           /\ stage.converted =
                 Interpolated(0, InputStream(Len(stage.converted) \div 2),
                              Len(stage.converted) \div 2)
           /\ staged.returned = Len(staged.held)

\* A write found converted samples left over, delivered them and went on
\* with samples converted during the call, from an input block that reached
\* past the end of the upstream source.
C25_Witness ==
    /\ stage.kind = "Resampled"
    /\ staged.before.kind = "Resampled"
    /\ buf_len(staged.before.out) > 0
    /\ staged.returned > buf_len(staged.before.out)
    /\ Len(stage.converted) > 2 * SourceFrames
    /\ buf_len(stage.out) > 0

(* C26 *)

\* The configuration is disabled or flat: every gain within 0.01 dB of 0.
Flat(config) ==
    \/ ~config.enabled
    \/ \A band \in 1..Bands : gain_abs(config.gains_db[band]) <= 10

\* C26: an EqualizerSource built from a disabled or flat configuration holds
\* no filters, returns what its upstream source returns and leaves in the
\* buffer the samples of the upstream source, untouched, followed by what the
\* buffer held; filters are held, and samples filtered, only when the
\* configuration is enabled and has a gain beyond 0.01 dB.
C26_EqualizerPassThrough ==
    staged.before.kind = "Equalizer"
        => LET direct == source_write(staged.before.source, Len(staged.held))
           IN  /\ Flat(staged.before.config)
                     => /\ staged.before.eq = <<>>
                        /\ staged.returned = direct.returned
                        /\ \A i \in 1..Len(staged.buffer) :
                              staged.buffer[i] = IF i <= direct.returned
                                                 THEN Raw(direct.samples[i])
                                                 ELSE staged.held[i]
               /\ staged.before.eq # <<>> <=> ~Flat(staged.before.config)
               /\ (\E i \in 1..Len(staged.buffer) : staged.buffer[i].filters # <<>>)
                     => ~Flat(staged.before.config)

\* An enabled equalizer with gains of exactly 0.01 dB and -0.01 dB passed
\* samples through.
C26_Witness ==
    /\ staged.before.kind = "Equalizer"
    /\ staged.before.config.enabled
    /\ staged.before.config.gains_db[1] = 0 - 10
    /\ staged.before.config.gains_db[Bands] = 10
    /\ staged.returned > 0
    /\ staged.buffer[1] = Raw(SampleOf(1, 0))

(* C27 *)

\* The files of the audio partition of a tree.
AudioOf(tree) == {e \in tree.files : e.dir = "audio" /\ e.is_file}

RECURSIVE TotalSize(_)
\* The bytes a set of files takes.
TotalSize(files) ==
    IF files = {}
    THEN 0
    ELSE LET e == CHOOSE e \in files : TRUE
         IN  e.size + TotalSize(files \ {e})

\* The last call was enforce_audio_limit.
EnforcedLast == io.op = "enforce_audio_limit"

\* The files the last call removed.
Removed == AudioOf(io.before) \ AudioOf(cache)

\* The last call was enforce_audio_limit(B) with B > 0 on audio files with
\* distinct modification times that took more than B bytes.
OverBudget ==
    /\ EnforcedLast
    /\ io.arg > 0
    /\ \A e, f \in AudioOf(io.before) : e # f => e.modified # f.modified
    /\ TotalSize(AudioOf(io.before)) > io.arg

OutsideAudio(tree) == tree.files \ AudioOf(tree)

\* C28: a call of enforce_audio_limit with a budget of 0, or with a budget
\* that the audio files do not exceed, removes nothing and leaves the tree as
\* it was; every call leaves the directories and every entry that is not a
\* file of the audio partition as they were, and adds or changes no entry.
C28_EvictionOnlyOverBudgetAndOnlyAudio ==
    EnforcedLast
        => /\ (io.arg = 0 \/ TotalSize(AudioOf(io.before)) <= io.arg)
                 => (cache = io.before /\ io.removed = <<>>)
           /\ cache.dirs = io.before.dirs
           /\ OutsideAudio(cache) = OutsideAudio(io.before)
           /\ cache.files \subseteq io.before.files

\* enforce_audio_limit(0) on a tree with the most audio files and with
\* metadata, keys and a country code.
C28_Witness ==
    /\ EnforcedLast
    /\ io.arg = 0
    /\ Cardinality(AudioOf(io.before)) = MaxAudioFiles
    /\ \E e \in OutsideAudio(io.before) : e.dir = "key"
    /\ cache = io.before

(* C29 *)

\* C29: from the first to the last step of Cache::clear the tree is the tree
\* that clear found or the empty skeleton.
C29_ClearShowsOldOrFreshTree ==
    io.clear # None => cache \in {io.clear[1].old, Skeleton}

(* C30 *)

\* What a reader returns on a hit.
KindOf(op) ==
    IF op = "get_track" THEN "Track"
    ELSE IF op = "get_episode" THEN "Episode"
    ELSE IF op = "get_audio_key" THEN "AudioKey"
    ELSE "String"

\* The directory a reader looks into.
DirOf(op) ==
    IF op = "get_track" THEN "track"
    ELSE IF op = "get_episode" THEN "episode"
    ELSE IF op = "get_audio_key" THEN "key"
    ELSE ""

\* The last call was one of the readers.
ReadLast == io.op \in {"get_track", "get_episode", "get_audio_key", "get_country_code"}

\* The entries that the last read could return: readable files with
\* well-formed data at the path asked for.
Hits ==
    {e \in io.before.files :
        e.dir = DirOf(io.op) /\ e.name = io.arg /\ e.is_file /\ e.data = "ok"}

\* C30: get_track, get_episode, get_audio_key and get_country_code return
\* None or Some, never an error; None exactly when there is no file at the
\* path, or it cannot be read, or its data does not parse; and the tree is as
\* it was before the call.
C30_ReadsAreMissesNotFailures ==
    ReadLast
        => /\ io.result = None
              \/ io.result = Some([what |-> KindOf(io.op), of |-> io.arg])
           /\ io.result = None <=> Hits = {}
           /\ io.after = io.before

\* get_audio_key found a file whose data does not parse and returned None.
C30_Witness ==
    /\ io.op = "get_audio_key"
    /\ \E e \in io.before.files :
          e.dir = "key" /\ e.name = io.arg /\ e.is_file /\ e.data = "corrupt"
    /\ io.result = None

(* C31 *)

\* The report being handled finds the crossfade due by time (duration > 0 and
\* time left <= duration) while the player is Playing and the queue's
\* following item is not Preloaded.
CrossfadeDueButNotPreloaded ==
    /\ AcceptedPosition
    /\ player.state.tag = "Playing"
    /\ player.config.crossfade_duration > 0
    /\ TimeLeft <= player.config.crossfade_duration
    /\ HasNextItem
    /\ ~(player.preload.tag = "Preloaded" /\ player.preload.item = NextItem)

\* C31: when the crossfade is due by time but the queue's following item is
\* not Preloaded, no crossfade is started, PlayerState (but for the reported
\* position) and the queue cursor are unchanged, and once the Position report
\* is handled a preload of the following item is in progress.
C31_NoCrossfadeButPreloadInProgress ==
    [][CrossfadeDueButNotPreloaded
          => /\ CrossfadeCalls(effects') = {}
             /\ player'.state = [player.state EXCEPT !.position = last'.position]
             /\ player'.queue = player.queue
             /\ player'.preload.tag = "Preloading"
             /\ player'.preload.item = NextItem]_vars

(* C32 *)

\* The command makes its source (or silence) the current one and ends any fade.
Resets(msg) ==
    \/ msg.type \in {"ReplaceSource", "Clear"}
    \/ msg.type = "StartCrossfade" /\ msg.duration_frames = 0

\* The command starts a fade toward its source.
StartsFade(msg) == msg.type = "StartCrossfade" /\ msg.duration_frames > 0

\* The command brings a source that becomes the current one at once.
CutsTo(msg) == Resets(msg) /\ msg.type # "Clear"

IncomingOf(msg) == IF msg.type = "ReplaceSource" THEN msg.source ELSE msg.next

\* Position in q of the last command for which P holds; 0 if there is none.
LastWhere(q, P(_)) ==
    LET S == {i \in DOMAIN q : P(q[i])}
    IN  IF S = {} THEN 0 ELSE CHOOSE i \in S : \A j \in S : j <= i

\* `after` is `before` with the commands of q applied one after the other,
\* first sent first: the last command that resets decides the current
\* source, a fade is on only if it was started after that, and without any
\* such command things are as before.
InSendOrder(before, q, after) ==
    LET r == LastWhere(q, Resets)
        f == LastWhere(q, StartsFade)
        c == LastWhere(q, CutsTo)
    IN  /\ after.receiver = <<>>
        /\ after.current = IF r = 0 THEN before.current
                           ELSE IF q[r].type = "Clear" THEN Empty
                           ELSE IncomingOf(q[r])
        /\ after.channels = IF c = 0 THEN before.channels ELSE IncomingOf(q[c]).channels
        /\ after.next = IF f > r THEN <<q[f].next>>
                        ELSE IF r > 0 THEN <<>>
                        ELSE before.next
        /\ after.fade = IF f > r THEN <<FadeState(q[f].duration_frames, 0)>>
                        ELSE IF r > 0 THEN <<>>
                        ELSE before.fade

\* C32: a write applies all the commands waiting on the control channel, in
\* the order they were sent, before it produces any sample: its output is
\* that of a mixer to which the commands had already been applied.  With no
\* command waiting the write proceeds with the mixer as it is.
C32_CommandsDrainedInSendOrderWithoutWaiting ==
    [][written' # written
          => /\ written'.pending = mixer.receiver
             /\ InSendOrder(mixer, mixer.receiver, written'.drained)
             /\ mixer'.receiver = <<>>
             /\ written'.buffer = crossfade_write(written'.drained, written'.len).buffer
             /\ written'.returned = crossfade_write(written'.drained, written'.len).returned
             /\ mixer.receiver = <<>> => written'.drained = mixer]_vars

\* A write found three commands waiting, a fade to be started, then Clear,
\* then a replacement source, and delivered samples of that last source.
C32_Witness ==
    /\ Len(written.pending) = 3
    /\ StartsFade(written.pending[1])
    /\ written.pending[2].type = "Clear"
    /\ written.pending[3].type = "ReplaceSource"
    /\ written.drained.current = written.pending[3].source
    /\ written.drained.fade = <<>>
    /\ written.returned > 0
    /\ written.buffer[1] = Frac(SampleOf(written.pending[3].source.id, 0), 1)

(* C33 *)

StoppedOrLoaded(e) == \E i \in DOMAIN e : e[i] = Call("sink", "stop")

\* C34: the suppression flag armed by a crossfade is not set once a later
\* Stop, Next, Previous, LoadQueue or LoadAndPlay has stopped the player or
\* started another track through load_and_play, so that the EndOfTrack of a
\* track started by load_and_play is never swallowed.
C34_SuppressionDoesNotOutliveNavigation ==
    [][(/\ last'.type \in {"Stop", "Next", "Previous", "LoadQueue", "LoadAndPlay"}
        /\ StoppedOrLoaded(effects'))
          => ~player'.ignore_end_of_track]_vars

(* C35 *)

\* The step handles a successful Loaded or Preloaded result that starts
\* playback through play_loaded.
ResultStartsPlayback ==
    /\ last'.type \in {"Loaded", "Preloaded"}
    /\ last'.ok
    /\ Logs(effects', "starting playback") # {}

\* C35: whenever a Loaded or Preloaded result starts playback, the item it
\* carries is the item the most recent call of load_and_play was made with,
\* and it is that item that plays, for every interleaving of commands and
\* late results.
C35_ResultsStartOnlyTheItemRequestedLast ==
    [][ResultStartsPlayback
          => /\ requested = <<last'.item>>
             /\ requested' = requested
             /\ player'.state = Playing(MediaPath(last'.item), 0)
             /\ StartedPlayback(effects', MediaPath(last'.item))]_vars

\* The result of the load requested last started playback while the load of
\* another item, requested earlier, was still running.
C35_Witness ==
    /\ last.type = "Loaded"
    /\ last.ok
    /\ requested = <<last.item>>
    /\ player.state = Playing(MediaPath(last.item), 0)
    /\ \E t \in threads : t.posts = "Loaded" /\ t.item # last.item

(* C36 *)

IsLoading(item) == player.state.tag = "Loading" /\ player.state.item = item

\* C36: when every background operation posts its result in the end and no
\* further command is issued, a player that load_and_play has put in
\* Loading(X) leaves Loading(X) in the end, whether the load was spawned by
\* load_and_play or taken over from a preload.
C36_LoadingIsLeft ==
    \A item \in Items : IsLoading(item) ~> ~IsLoading(item)

\* The result of a preload that load_and_play had taken over as its load
\* arrived as a Preloaded event and started playback.
C36_Witness ==
    /\ last.type = "Preloaded"
    /\ last.ok
    /\ last.handle = 1
    /\ player.state = Playing(MediaPath(last.item), 0)
    /\ Logs(effects, "starting playback") # {}


(* C37 *)

\* C37: after the handling of any event has completed, the consecutive-failure
\* counter is 0, 1 or 2: the failure that would make it 3 stops the player,
\* and stop() resets it.
C37_CounterBelowThreshold ==
    player.consecutive_loading_failures
        \in 0..(STOP_AFTER_CONSECUTIVE_LOADING_FAILURES - 1)

\* A second consecutive failure was counted and skipped past; the third one
\* stopped the player and left the counter at 0.
C37_Witness ==
    /\ last.type = "Loaded"
    /\ ~last.ok
    /\ Logs(effects, "stopping, error while loading") # {}
    /\ player.state = Stopped
    /\ player.consecutive_loading_failures = 0


(* C38 *)

FailedMatchingPreload ==
    /\ last'.type = "Preloaded"
    /\ ~last'.ok
    /\ player.preload.tag = "Preloading"
    /\ player.preload.item = last'.item

\* C38: a failed Preloaded result for the item the preload slot is waiting
\* for only empties the slot: the player state, the queue with its cursor and
\* the consecutive-failure counter stay as they were, and nothing is sent or
\* called: no skip, no stop.
C38_FailedPreloadOnlyEmptiesTheSlot ==
    [][FailedMatchingPreload
          => /\ player' = [player EXCEPT !.preload = PreloadNone]
             /\ effects' = <<Logged("failed to preload audio file")>>]_vars

\* A preload failed while an item of a loaded queue was playing or loading:
\* the slot is empty and the player goes on.
C38_Witness ==
    /\ last.type = "Preloaded"
    /\ ~last.ok
    /\ effects = <<Logged("failed to preload audio file")>>
    /\ player.preload = PreloadNone
    /\ player.state.tag \in {"Playing", "Loading"}
    /\ player.queue.items # <<>>


(* C39 *)

\* A write finds a fade in progress and one command waiting: StartCrossfade
\* with a duration above 0.
WriteRestartsFade ==
    /\ mixer.fade # <<>>
    /\ mixer.next # <<>>
    /\ Len(mixer.receiver) = 1
    /\ mixer.receiver[1].type = "StartCrossfade"
    /\ mixer.receiver[1].duration_frames > 0
    /\ mixer'.receiver = <<>>

\* C39: StartCrossfade with a duration above 0, received while a fade is in
\* progress, starts a new fade at position 0 toward the new source and keeps
\* the current source; the first frame of the write is the current source at
\* full gain, and on return the current source is the old current one or,
\* when the write ended the new fade, the new source.  The source that was
\* fading in is not read again and does not become current.
C39_StartCrossfadeDuringFadeRestarts ==
    [][WriteRestartsFade
          => LET msg == mixer.receiver[1]
                 max_len == IF mixer.channels = 0 THEN 0
                            ELSE written'.len - (written'.len % mixer.channels)
                 a == source_write(mixer.current, max_len)
                 c == source_write(msg.next, max_len)
             IN  /\ written'.drained.current = mixer.current
                 /\ written'.drained.next = <<msg.next>>
                 /\ written'.drained.fade = <<FadeState(msg.duration_frames, 0)>>
                 /\ written'.drained.channels = mixer.channels
                 /\ written'.returned = max_len
                 /\ \A i \in 1..Min(mixer.channels, max_len) :
                        written'.buffer[i]
                            = Frac((IF i <= a.returned THEN a.samples[i] ELSE 0)
                                       * msg.duration_frames, msg.duration_frames)
                 /\ \/ /\ mixer'.current = a.source
                       /\ mixer'.next = <<c.source>>
                       /\ mixer'.fade
                              = <<FadeState(msg.duration_frames, max_len \div mixer.channels)>>
                    \/ /\ max_len \div mixer.channels >= msg.duration_frames
                       /\ mixer'.current = c.source
                       /\ mixer'.next = <<>>
                       /\ mixer'.fade = <<>>]_vars

\* A write found the fade from source 1 to source 2 half done and
\* StartCrossfade toward a fresh source 1 waiting: the new fade started at 0
\* with the old current source, and is still going on after the write.
C39_Witness ==
    /\ written.fading
    /\ Len(written.pending) = 1
    /\ written.pending[1].type = "StartCrossfade"
    /\ written.pending[1].duration_frames > 1
    /\ written.pending[1].next.id = 1
    /\ written.drained.current.id = 1
    /\ written.drained.current.idx > 0
    /\ written.drained.fade = <<FadeState(written.pending[1].duration_frames, 0)>>
    /\ written.returned > 0
    /\ mixer.fade # <<>>
    /\ mixer.next # <<>>
    /\ mixer.next[1].id = 1


(* C40 *)

\* The snapshot path holds no snapshot written in part.
SnapshotPathIsWhole == snapshot.path.kind # "partial"

\* The loader's cleanup removed no snapshot.
CleanupRemovedNoSnapshot ==
    snapshot.removed # None => snapshot.removed[1].kind # "valid"

\* C40: the cleanup of load_snapshot, run by its thread for a missing or
\* invalid snapshot, never deletes a valid snapshot that save_snapshot has
\* stored, and the snapshot path never holds a snapshot written in part.
C40_CleanupSparesStoredSnapshot ==
    /\ CleanupRemovedNoSnapshot
    /\ SnapshotPathIsWhole

====
